---- MODULE Spec2Model ----
(***************************************************************************)
(* A model of smallchain: a simulated proof-of-work network.  Every node   *)
(* owns a BlockChain and a MemPool, mines in a cooperative run loop, and   *)
(* adopts longer chains announced by its peers.                            *)
(*                                                                         *)
(* Values.  An Address and a TransactionId are naturals.  A BlockHash is a *)
(* sequence: <<>> is the empty hash (the prefix of the genesis block), and *)
(* a digest is <<d1, d2, d3, preimage>>: three leading digest bytes,       *)
(* followed by the serialized block, which stands for the remaining bytes  *)
(* of the SHA-256 digest (SHA-256 is taken to be collision free).  The     *)
(* leading bytes are a checksum of the serialized fields, so that the      *)
(* nonce decides whether a block is well mined.                            *)
(*                                                                         *)
(* A u64 is an integer x standing for x mod 2^64: a negative x is the      *)
(* wrapped value 2^64 + x.  A subtraction that underflows panics in a      *)
(* build with overflow checks and wraps in a build without them; the       *)
(* operators that subtract take the build's choice as a parameter.         *)
(***************************************************************************)
EXTENDS Integers, Sequences, FiniteSets, TLC

(***************************************************************************)
(* constants.rs                                                            *)
(***************************************************************************)
COINS_PER_MINED_BLOCK == 1000

MINING_DIFFICULTY == 20

\* The source tries 1000 nonces per pass; the model tries this many.
NODE_MINING_NONCE_STEP == 2

(***************************************************************************)
(* Bounds of the model.                                                    *)
(***************************************************************************)
\* No chain grows beyond this many blocks (genesis included).
MaxLen == 4

\* The chain that is exercised on its own (ChainSpec) grows to this many
\* blocks (genesis included).
MaxChainLen == 3

\* The clients have at most this many transactions accepted.
MaxTransactions == 2

\* The addresses of the nodes.
Nodes == {1, 2}

\* The nodes the clients submit transactions to; the other nodes learn of
\* them from the broadcasts.
ClientNodes == {1}

\* The nodes that delete_node is called for.
Deletable == {2}

\* The addresses that send and receive coins.
Addresses == {1, 2}

\* The identifiers a fresh random transaction id is drawn from.
TxIds == {1, 2}

\* The amount a client transfers.
Amounts == {700}

\* Option<T>: None, or Some(x) holding x.
None == <<>>

Some(x) == <<x>>

Unwrap(opt) == opt[1]

(***************************************************************************)
(* u64 arithmetic on representatives                                       *)
(***************************************************************************)
\* a < b on the u64 values that a and b stand for.
U64Less(a, b) ==
    IF a < 0 THEN (b < 0 /\ a < b) ELSE (b < 0 \/ a < b)

\* a - b underflows (b is a small natural).
Underflows(a, b) == a >= 0 /\ a < b

(***************************************************************************)
(* block.rs                                                                *)
(***************************************************************************)
Transaction(sender, receiver, amount) ==
    [sender |-> sender, receiver |-> receiver, amount |-> amount]

BlockTransaction(id, prefix_hash, info) ==
    [id |-> id, prefix_hash |-> prefix_hash, info |-> info]

Block(transactions, prefix_hash, miner, nonce) ==
    [transactions |-> transactions, prefix_hash |-> prefix_hash,
     miner |-> miner, nonce |-> nonce]

EmptyHash == <<>>

Genesis == Block(<<>>, EmptyHash, 0, 0)

is_genesis(block) == Len(block.prefix_hash) = 0

\* The canonical serialization of a block: its fields in declaration order.
Serialize(block) ==
    <<block.transactions, block.prefix_hash, block.miner, block.nonce>>

\* The sum of the leading digest byte of a hash (0 for the empty hash).
HashWeight(h) == IF Len(h) = 0 THEN 0 ELSE h[3]

RECURSIVE TransactionsWeight(_)
TransactionsWeight(txs) ==
    IF txs = <<>> THEN 0
    ELSE LET t == Head(txs)
         IN  t.id + HashWeight(t.prefix_hash) + t.info.sender + t.info.receiver
             + t.info.amount + TransactionsWeight(Tail(txs))

\* A checksum of the serialized block; every field contributes.
Checksum(block) ==
    Len(block.transactions) + TransactionsWeight(block.transactions)
    + HashWeight(block.prefix_hash) + block.miner + block.nonce

\* SHA-256 of the serialized block.  The third digest byte is drawn from
\* the checksum: the digest starts with at least 22 zero bits when the
\* checksum is a multiple of 3, and with 19 or 18 zero bits otherwise.
Hash(block) ==
    LET c == Checksum(block)
    IN  <<0, 0, 16 * (c % 3) + 1 + ((c \div 3) % 2), Serialize(block)>>

\* u8::leading_zeros
LeadingZeros8(value) ==
    IF value >= 128 THEN 0
    ELSE IF value >= 64 THEN 1
    ELSE IF value >= 32 THEN 2
    ELSE IF value >= 16 THEN 3
    ELSE IF value >= 8 THEN 4
    ELSE IF value >= 4 THEN 5
    ELSE IF value >= 2 THEN 6
    ELSE IF value >= 1 THEN 7
    ELSE 8

\* The loop of leading_zero_bits from byte i on.
RECURSIVE LeadingZeroBitsFrom(_, _)
LeadingZeroBitsFrom(h, i) ==
    IF i > Len(h) THEN 0
    ELSE IF h[i] = 0 THEN 8 + LeadingZeroBitsFrom(h, i + 1)
    ELSE LeadingZeros8(h[i])

leading_zero_bits(h) == LeadingZeroBitsFrom(h, 1)

\* is_valid_nonce with a threshold two bits too low.
is_valid_nonce_lenient(block) ==
    leading_zero_bits(Hash(block)) >= MINING_DIFFICULTY - 2

is_valid_nonce(block) == leading_zero_bits(Hash(block)) >= MINING_DIFFICULTY

\* The loop of attempt_mining_block trying the nonce hi as well.
RECURSIVE attempt_mining_through(_, _, _, _, _)
attempt_mining_through(prefix_hash, miner, transactions, lo, hi) ==
    IF lo > hi THEN None
    ELSE LET new_block == Block(transactions, prefix_hash, miner, lo)
         IN  IF is_valid_nonce(new_block) THEN Some(new_block)
             ELSE attempt_mining_through(prefix_hash, miner, transactions,
                                         lo + 1, hi)

\* The loop of attempt_mining_block over the nonces lo .. hi - 1, in order.
RECURSIVE attempt_mining_from(_, _, _, _, _)
attempt_mining_from(prefix_hash, miner, transactions, lo, hi) ==
    IF lo >= hi THEN None
    ELSE LET new_block == Block(transactions, prefix_hash, miner, lo)
         IN  IF is_valid_nonce(new_block) THEN Some(new_block)
             ELSE attempt_mining_from(prefix_hash, miner, transactions, lo + 1, hi)

attempt_mining_block(prefix_hash, miner, transactions, lo, hi) ==
    attempt_mining_from(prefix_hash, miner, transactions, lo, hi)

(***************************************************************************)
(* blockchain.rs                                                           *)
(***************************************************************************)
\* HashMap::entry(key).or_insert(0): the map with the key materialized.
OrInsertZero(map, key) ==
    IF key \in DOMAIN map THEN map ELSE map @@ (key :> 0)

\* *map.entry(key).or_insert(0) += delta (delta may be negative).
AddTo(map, key, delta) ==
    LET m == OrInsertZero(map, key)
    IN  [m EXCEPT ![key] = @ + delta]

\* map.get(key).unwrap_or(0)
GetOrZero(map, key) == IF key \in DOMAIN map THEN map[key] ELSE 0

NewBlockChain ==
    [chain |-> <<Hash(Genesis)>>,
     blocks |-> (Hash(Genesis) :> Genesis),
     balance |-> <<>>]

len(bc) == Len(bc.chain)

contains(bc, block_hash) == block_hash \in DOMAIN bc.blocks

get_block(bc, block_hash) ==
    IF block_hash \in DOMAIN bc.blocks THEN Some(bc.blocks[block_hash]) ELSE None

last_hash(bc) == bc.chain[Len(bc.chain)]

last_block(bc) == bc.blocks[last_hash(bc)]

balance_of(bc, address) == GetOrZero(bc.balance, address)

\* The first loop of append_block: the ids of the transactions are unique.
\* The first loop of append_block letting every list of ids through.
UniqueIdsUnchecked(transactions) == TRUE

UniqueIds(transactions) ==
    \A i, j \in 1..Len(transactions) :
        i # j => transactions[i].id # transactions[j].id

\* The second loop of append_block without the check of the transaction's
\* prefix_hash.
RECURSIVE ApplyTransactionsAnyPrefix(_, _, _)
ApplyTransactionsAnyPrefix(balance, block, i) ==
    IF i > Len(block.transactions) THEN [ok |-> TRUE, balance |-> balance]
    ELSE LET t == block.transactions[i]
             b0 == OrInsertZero(balance, t.info.sender)
         IN  IF U64Less(b0[t.info.sender], t.info.amount)
             THEN [ok |-> FALSE, balance |-> b0]
             ELSE ApplyTransactionsAnyPrefix(
                      AddTo(AddTo(b0, t.info.sender, 0 - t.info.amount),
                            t.info.receiver, t.info.amount),
                      block, i + 1)

\* The second loop of append_block from transaction i on: check and update
\* the balance.  The updates of the transactions before a rejected one stay.
RECURSIVE ApplyTransactions(_, _, _)
ApplyTransactions(balance, block, i) ==
    IF i > Len(block.transactions) THEN [ok |-> TRUE, balance |-> balance]
    ELSE LET t == block.transactions[i]
             b0 == OrInsertZero(balance, t.info.sender)
         IN  IF t.prefix_hash # block.prefix_hash
             THEN [ok |-> FALSE, balance |-> balance]
             ELSE IF U64Less(b0[t.info.sender], t.info.amount)
             THEN [ok |-> FALSE, balance |-> b0]
             ELSE ApplyTransactions(
                      AddTo(AddTo(b0, t.info.sender, 0 - t.info.amount),
                            t.info.receiver, t.info.amount),
                      block, i + 1)

\* append_block crediting the miner before it applies the transactions.
append_block_reward_first(bc, block) ==
    IF block.prefix_hash # last_hash(bc) THEN [ok |-> FALSE, bc |-> bc]
    ELSE IF ~is_valid_nonce(block) THEN [ok |-> FALSE, bc |-> bc]
    ELSE IF ~UniqueIds(block.transactions) THEN [ok |-> FALSE, bc |-> bc]
    ELSE LET r == ApplyTransactions(
                      AddTo(bc.balance, block.miner, COINS_PER_MINED_BLOCK),
                      block, 1)
         IN  IF ~r.ok THEN [ok |-> FALSE, bc |-> [bc EXCEPT !.balance = r.balance]]
             ELSE [ok |-> TRUE,
                   bc |-> [chain |-> Append(bc.chain, Hash(block)),
                           blocks |-> (Hash(block) :> block) @@ bc.blocks,
                           balance |-> r.balance]]

\* append_block: [ok, bc], the result and the chain after the call.
append_block(bc, block) ==
    IF block.prefix_hash # last_hash(bc) THEN [ok |-> FALSE, bc |-> bc]
    ELSE IF ~is_valid_nonce(block) THEN [ok |-> FALSE, bc |-> bc]
    ELSE IF ~UniqueIds(block.transactions) THEN [ok |-> FALSE, bc |-> bc]
    ELSE LET r == ApplyTransactions(bc.balance, block, 1)
         IN  IF ~r.ok THEN [ok |-> FALSE, bc |-> [bc EXCEPT !.balance = r.balance]]
             ELSE [ok |-> TRUE,
                   bc |-> [chain |-> Append(bc.chain, Hash(block)),
                           blocks |-> (Hash(block) :> block) @@ bc.blocks,
                           balance |-> AddTo(r.balance, block.miner,
                                             COINS_PER_MINED_BLOCK)]]

\* The loop of pop_block from transaction i on: credit the sender, debit
\* the receiver.  With overflow checks (a debug build) the first subtraction
\* that underflows panics; without them (a release build) it wraps, and the
\* addition that brings a wrapped balance back past 2^64 overflows.
\* [balance, panic, overflow]
RECURSIVE UndoTransactions(_, _, _, _)
UndoTransactions(balance, block, i, checked) ==
    IF i > Len(block.transactions)
    THEN [balance |-> balance, panic |-> FALSE, overflow |-> FALSE]
    ELSE LET t == block.transactions[i]
             b1 == AddTo(balance, t.info.sender, t.info.amount)
             b2 == OrInsertZero(b1, t.info.receiver)
         IN  IF checked /\ Underflows(b2[t.info.receiver], t.info.amount)
             THEN [balance |-> b2, panic |-> TRUE, overflow |-> FALSE]
             ELSE LET r == UndoTransactions(
                               AddTo(b2, t.info.receiver, 0 - t.info.amount),
                               block, i + 1, checked)
                  IN  [r EXCEPT !.overflow =
                           @ \/ (GetOrZero(balance, t.info.sender) < 0
                                  /\ b1[t.info.sender] >= 0)]

\* pop_block without the debit of the miner's reward.
pop_block_keeps_reward(bc, checked) ==
    IF is_genesis(last_block(bc))
    THEN [block |-> None, bc |-> bc, panic |-> FALSE, overflow |-> FALSE]
    ELSE LET block_hash == last_hash(bc)
             block == bc.blocks[block_hash]
             popped == [chain |-> SubSeq(bc.chain, 1, Len(bc.chain) - 1),
                        blocks |-> [h \in DOMAIN bc.blocks \ {block_hash} |->
                                        bc.blocks[h]],
                        balance |-> OrInsertZero(bc.balance, block.miner)]
             r == UndoTransactions(popped.balance, block, 1, checked)
         IN  [block |-> Some(block),
              bc |-> [popped EXCEPT !.balance = r.balance],
              panic |-> r.panic, overflow |-> r.overflow]

\* pop_block without its test of the genesis block.
pop_block_past_genesis(bc, checked) ==
    LET block_hash == last_hash(bc)
        block == bc.blocks[block_hash]
        popped == [chain |-> SubSeq(bc.chain, 1, Len(bc.chain) - 1),
                   blocks |-> [h \in DOMAIN bc.blocks \ {block_hash} |->
                                   bc.blocks[h]],
                   balance |-> OrInsertZero(bc.balance, block.miner)]
    IN  IF checked /\ Underflows(popped.balance[block.miner],
                                 COINS_PER_MINED_BLOCK)
        THEN [block |-> Some(block), bc |-> popped, panic |-> TRUE,
              overflow |-> FALSE]
        ELSE LET r == UndoTransactions(
                          AddTo(popped.balance, block.miner,
                                0 - COINS_PER_MINED_BLOCK),
                          block, 1, checked)
             IN  [block |-> Some(block),
                  bc |-> [popped EXCEPT !.balance = r.balance],
                  panic |-> r.panic, overflow |-> r.overflow]

\* pop_block: [block, bc, panic]: the popped block (or None), the chain
\* after the call (at the panic, if it panicked).
pop_block(bc, checked) ==
    IF is_genesis(last_block(bc))
    THEN [block |-> None, bc |-> bc, panic |-> FALSE, overflow |-> FALSE]
    ELSE LET block_hash == last_hash(bc)
             block == bc.blocks[block_hash]
             popped == [chain |-> SubSeq(bc.chain, 1, Len(bc.chain) - 1),
                        blocks |-> [h \in DOMAIN bc.blocks \ {block_hash} |->
                                        bc.blocks[h]],
                        balance |-> OrInsertZero(bc.balance, block.miner)]
         IN  IF checked /\ Underflows(popped.balance[block.miner],
                                      COINS_PER_MINED_BLOCK)
             THEN [block |-> Some(block), bc |-> popped, panic |-> TRUE,
              overflow |-> FALSE]
             ELSE LET r == UndoTransactions(
                               AddTo(popped.balance, block.miner,
                                     0 - COINS_PER_MINED_BLOCK),
                               block, 1, checked)
                  IN  [block |-> Some(block),
                       bc |-> [popped EXCEPT !.balance = r.balance],
                       panic |-> r.panic, overflow |-> r.overflow]

\* pop_until: [bc, panic].  pop_block().unwrap() panics when the genesis
\* block is reached before block_hash is the last hash.
RECURSIVE pop_until(_, _, _)
pop_until(bc, block_hash, checked) ==
    IF last_hash(bc) = block_hash THEN [bc |-> bc, panic |-> FALSE]
    ELSE LET p == pop_block(bc, checked)
         IN  IF p.block = None \/ p.panic THEN [bc |-> p.bc, panic |-> TRUE]
             ELSE pop_until(p.bc, block_hash, checked)

\* append_blocks: append in order, stop at the first error.
RECURSIVE append_blocks(_, _)
append_blocks(bc, blocks) ==
    IF blocks = <<>> THEN [ok |-> TRUE, bc |-> bc]
    ELSE LET r == append_block(bc, Head(blocks))
         IN  IF r.ok THEN append_blocks(r.bc, Tail(blocks)) ELSE r

(***************************************************************************)
(* mempool.rs                                                              *)
(***************************************************************************)
NewMemPool(blockchain) ==
    [transaction_ids |-> {},
     transactions |-> <<>>,
     balance |-> blockchain.balance,
     prefix_hash |-> last_hash(blockchain)]

\* MemPool::add_transaction without the check of the sender's balance.
mempool_add_transaction_unfunded(mp, transaction) ==
    IF transaction.prefix_hash # mp.prefix_hash THEN [ok |-> FALSE, mp |-> mp]
    ELSE IF transaction.id \in mp.transaction_ids THEN [ok |-> FALSE, mp |-> mp]
    ELSE [ok |-> TRUE,
          mp |-> [transaction_ids |-> mp.transaction_ids \cup {transaction.id},
                  transactions |-> Append(mp.transactions, transaction),
                  balance |-> AddTo(AddTo(mp.balance, transaction.info.sender,
                                          0 - transaction.info.amount),
                                    transaction.info.receiver,
                                    transaction.info.amount),
                  prefix_hash |-> mp.prefix_hash]]

\* MemPool::add_transaction putting the newest transaction first.
mempool_add_transaction_newest_first(mp, transaction) ==
    IF transaction.prefix_hash # mp.prefix_hash THEN [ok |-> FALSE, mp |-> mp]
    ELSE IF transaction.id \in mp.transaction_ids THEN [ok |-> FALSE, mp |-> mp]
    ELSE IF U64Less(GetOrZero(mp.balance, transaction.info.sender),
                    transaction.info.amount)
    THEN [ok |-> FALSE, mp |-> mp]
    ELSE [ok |-> TRUE,
          mp |-> [transaction_ids |-> mp.transaction_ids \cup {transaction.id},
                  transactions |-> <<transaction>> \o mp.transactions,
                  balance |-> AddTo(AddTo(mp.balance, transaction.info.sender,
                                          0 - transaction.info.amount),
                                    transaction.info.receiver,
                                    transaction.info.amount),
                  prefix_hash |-> mp.prefix_hash]]

\* MemPool::add_transaction reading the sender's balance through
\* balance_mut_of, which leaves a zero entry for a sender without one.
mempool_add_transaction_touches_sender(mp, transaction) ==
    IF transaction.prefix_hash # mp.prefix_hash THEN [ok |-> FALSE, mp |-> mp]
    ELSE IF transaction.id \in mp.transaction_ids THEN [ok |-> FALSE, mp |-> mp]
    ELSE IF U64Less(GetOrZero(mp.balance, transaction.info.sender),
                    transaction.info.amount)
    THEN [ok |-> FALSE,
          mp |-> [mp EXCEPT !.balance = OrInsertZero(@, transaction.info.sender)]]
    ELSE [ok |-> TRUE,
          mp |-> [transaction_ids |-> mp.transaction_ids \cup {transaction.id},
                  transactions |-> Append(mp.transactions, transaction),
                  balance |-> AddTo(AddTo(mp.balance, transaction.info.sender,
                                          0 - transaction.info.amount),
                                    transaction.info.receiver,
                                    transaction.info.amount),
                  prefix_hash |-> mp.prefix_hash]]

\* MemPool::add_transaction: [ok, mp], the result and the pool after the call.
\* MemPool::add_transaction without the check of the id.
mempool_add_transaction_any_id(mp, transaction) ==
    IF transaction.prefix_hash # mp.prefix_hash THEN [ok |-> FALSE, mp |-> mp]
    ELSE IF U64Less(GetOrZero(mp.balance, transaction.info.sender),
                    transaction.info.amount)
    THEN [ok |-> FALSE, mp |-> mp]
    ELSE [ok |-> TRUE,
          mp |-> [transaction_ids |-> mp.transaction_ids \cup {transaction.id},
                  transactions |-> Append(mp.transactions, transaction),
                  balance |-> AddTo(AddTo(mp.balance, transaction.info.sender,
                                          0 - transaction.info.amount),
                                    transaction.info.receiver,
                                    transaction.info.amount),
                  prefix_hash |-> mp.prefix_hash]]

mempool_add_transaction(mp, transaction) ==
    IF transaction.prefix_hash # mp.prefix_hash THEN [ok |-> FALSE, mp |-> mp]
    ELSE IF transaction.id \in mp.transaction_ids THEN [ok |-> FALSE, mp |-> mp]
    ELSE IF U64Less(GetOrZero(mp.balance, transaction.info.sender),
                    transaction.info.amount)
    THEN [ok |-> FALSE, mp |-> mp]
    ELSE [ok |-> TRUE,
          mp |-> [transaction_ids |-> mp.transaction_ids \cup {transaction.id},
                  transactions |-> Append(mp.transactions, transaction),
                  balance |-> AddTo(AddTo(mp.balance, transaction.info.sender,
                                          0 - transaction.info.amount),
                                    transaction.info.receiver,
                                    transaction.info.amount),
                  prefix_hash |-> mp.prefix_hash]]

\* MemPool::reset keeping the provisional balances of the pool.
mempool_reset_keeps_balance(mp, blockchain) ==
    [NewMemPool(blockchain) EXCEPT !.balance = mp.balance]

\* MemPool::reset
mempool_reset(mp, blockchain) == NewMemPool(blockchain)

(***************************************************************************)
(* node.rs: the state of a node                                            *)
(***************************************************************************)
NewNode(address) ==
    [alive |-> TRUE,
     address |-> address,
     blockchain |-> NewBlockChain,
     next_nonce |-> 0,
     mempool |-> NewMemPool(NewBlockChain),
     better_blockchain |-> None]

BetterBlockChain(length, block, source) ==
    [length |-> length, last_block |-> block, source |-> source]

RECURSIVE Reverse(_)
Reverse(s) == IF s = <<>> THEN <<>> ELSE Append(Reverse(Tail(s)), Head(s))

(***************************************************************************)
(* The state of the system.                                                *)
(*   world     the addresses registered in the World (World::nodes)        *)
(*   node      the Node behind each address                                *)
(*   pc        where the run_node task of each node stands:                *)
(*               "check"    about to read alive (the top of the loop)      *)
(*               "acquire"  about to take the node's write lock            *)
(*               "query"    in achieve_consensus, write lock held,         *)
(*                          suspended at query_block                       *)
(*               "mine"     achieve_consensus returned, write lock held,   *)
(*                          about to call mining                           *)
(*               "exited"   the loop has ended                             *)
(*               "panicked" the task has panicked                          *)
(*   fetch     the locals of achieve_consensus across its suspension       *)
(*   outcome   how achieve_consensus ended in the pass under way           *)
(*   tasks     the delivery tasks spawned by broadcasts and not yet run    *)
(*   stopping  the nodes removed by delete_node and not yet stopped        *)
(*   accepted  the number of client transactions accepted so far           *)
(* ChainSpec exercises one BlockChain on its own:                          *)
(*   tchain    the chain                                                   *)
(*   tcall     the last call made on it: the operation, its argument or    *)
(*             result, and the chain before the call                       *)
(* MineSpec calls attempt_mining_block on its own:                         *)
(*   tmine     the last call: its arguments and its result                 *)
(* PoolSpec exercises one node and its MemPool on their own:               *)
(*   tnode     the node                                                    *)
(*   pcall     the last call made on it: the operation, its argument, its  *)
(*             result and the node before the call                         *)
(***************************************************************************)
VARIABLES world, node, pc, fetch, outcome, tasks, stopping, accepted,
          tchain, tcall, tmine, tnode, pcall

vars == <<world, node, pc, fetch, outcome, tasks, stopping, accepted,
          tchain, tcall, tmine, tnode, pcall>>

\* The variables of the network, and those of the chain exercised alone.
network_vars == <<world, node, pc, fetch, outcome, tasks, stopping, accepted>>

chain_vars == <<tchain, tcall, tmine>>

pool_vars == <<tnode, pcall>>

\* The write lock given up once achieve_consensus has returned.
WriteLockedDuringConsensus(n) == pc[n] = "query"

\* The write lock given up while achieve_consensus is suspended.
WriteLockedWhileRunning(n) == pc[n] = "mine"

\* The write lock of node n is held across suspensions only by its run loop.
WriteLocked(n) == pc[n] \in {"query", "mine"}

NoCall ==
    [op |-> "new", ok |-> TRUE, block |-> None, before |-> NewBlockChain,
     panic |-> FALSE, overflow |-> FALSE]

NoMine ==
    [op |-> "new", prefix_hash |-> EmptyHash, miner |-> 0,
     transactions |-> <<>>, lo |-> 0, hi |-> 0, block |-> None]

NoPoolCall ==
    [op |-> "new", ok |-> TRUE, transaction |-> None, announcement |-> None,
     broadcast |-> <<>>, spawned |-> {}, before |-> NewNode(1)]

Init ==
    /\ tchain = NewBlockChain
    /\ tcall = NoCall
    /\ tmine = NoMine
    /\ tnode = NewNode(1)
    /\ pcall = NoPoolCall
    /\ world = Nodes
    /\ node = [n \in Nodes |-> NewNode(n)]
    /\ pc = [n \in Nodes |-> "check"]
    /\ fetch = [n \in Nodes |-> None]
    /\ outcome = [n \in Nodes |-> "idle"]
    /\ tasks = {}
    /\ stopping = {}
    /\ accepted = 0

(***************************************************************************)
(* node.rs: achieve_consensus                                              *)
(***************************************************************************)
\* The replay done on the live chain instead of a clone: what was popped
\* and appended stays when the replay is abandoned.
ReplayInPlace(nd, better_blockchain, last_common_hash, new_blocks, checked) ==
    LET popped == pop_until(nd.blockchain, last_common_hash, checked)
        appended == append_blocks(popped.bc, Reverse(new_blocks))
    IN  IF popped.panic
        THEN [node |-> [nd EXCEPT !.blockchain = popped.bc], outcome |-> "panic"]
        ELSE IF ~appended.ok
        THEN [node |-> [nd EXCEPT !.blockchain = appended.bc],
              outcome |-> "invalid"]
        ELSE IF len(appended.bc) # better_blockchain.length
        THEN [node |-> [nd EXCEPT !.blockchain = appended.bc],
              outcome |-> "bad_length"]
        ELSE [node |-> [nd EXCEPT !.blockchain = appended.bc,
                                  !.next_nonce = 0,
                                  !.mempool = mempool_reset(nd.mempool, appended.bc)],
              outcome |-> "adopted"]

\* Lines 170-196: replay the candidate on a clone and adopt it if valid.
\* [node, outcome]
Replay(nd, better_blockchain, last_common_hash, new_blocks, checked) ==
    LET popped == pop_until(nd.blockchain, last_common_hash, checked)
        appended == append_blocks(popped.bc, Reverse(new_blocks))
    IN  IF popped.panic THEN [node |-> nd, outcome |-> "panic"]
        ELSE IF ~appended.ok THEN [node |-> nd, outcome |-> "invalid"]
        ELSE IF len(appended.bc) # better_blockchain.length
        THEN [node |-> nd, outcome |-> "bad_length"]
        ELSE [node |-> [nd EXCEPT !.blockchain = appended.bc,
                                  !.next_nonce = 0,
                                  !.mempool = mempool_reset(nd.mempool, appended.bc)],
              outcome |-> "adopted"]

\* The while loop of lines 153-164 at its test: replay when the fork point
\* is found, suspend at query_block otherwise.  [node, outcome, fetch]
FetchLoop(nd, better_blockchain, last_common_hash, new_blocks, checked) ==
    IF contains(nd.blockchain, last_common_hash)
    THEN Replay(nd, better_blockchain, last_common_hash, new_blocks, checked)
             @@ [fetch |-> None]
    ELSE [node |-> nd, outcome |-> "fetching",
          fetch |-> Some([better_blockchain |-> better_blockchain,
                          last_common_hash |-> last_common_hash,
                          new_blocks |-> new_blocks])]

\* achieve_consensus reading the candidate without taking it out of its slot.
achieve_consensus_keeps_candidate(nd, checked) ==
    LET better_blockchain == Unwrap(nd.better_blockchain)
    IN  IF nd.better_blockchain = None
        THEN [node |-> nd, outcome |-> "no_candidate", fetch |-> None]
        ELSE IF better_blockchain.length <= len(nd.blockchain)
        THEN [node |-> nd, outcome |-> "stale", fetch |-> None]
        ELSE IF contains(nd.blockchain, Hash(better_blockchain.last_block))
        THEN Replay(nd, better_blockchain,
                    Hash(better_blockchain.last_block), <<>>, checked)
                 @@ [fetch |-> None]
        ELSE FetchLoop(nd, better_blockchain,
                       better_blockchain.last_block.prefix_hash,
                       <<better_blockchain.last_block>>, checked)

\* achieve_consensus up to its first suspension.  [node, outcome, fetch]
achieve_consensus(nd, checked) ==
    LET better_blockchain == Unwrap(nd.better_blockchain)
        taken == [nd EXCEPT !.better_blockchain = None]
    IN  IF nd.better_blockchain = None
        THEN [node |-> nd, outcome |-> "no_candidate", fetch |-> None]
        ELSE IF better_blockchain.length <= len(nd.blockchain)
        THEN [node |-> taken, outcome |-> "stale", fetch |-> None]
        ELSE IF contains(nd.blockchain, Hash(better_blockchain.last_block))
        THEN Replay(taken, better_blockchain,
                    Hash(better_blockchain.last_block), <<>>, checked)
                 @@ [fetch |-> None]
        ELSE FetchLoop(taken, better_blockchain,
                       better_blockchain.last_block.prefix_hash,
                       <<better_blockchain.last_block>>, checked)

\* achieve_consensus after query_block returned block (or None).
achieve_consensus_resume(nd, f, block, checked) ==
    IF block = None
    THEN [node |-> nd, outcome |-> "fetch_failed", fetch |-> None]
    ELSE FetchLoop(nd, f.better_blockchain, Unwrap(block).prefix_hash,
                   Append(f.new_blocks, Unwrap(block)), checked)

\* Where the run loop stands after achieve_consensus ended or suspended.
PcAfter(out) ==
    IF out = "fetching" THEN "query"
    ELSE IF out = "panic" THEN "panicked"
    ELSE "mine"

(***************************************************************************)
(* network.rs                                                              *)
(***************************************************************************)
\* broadcast_block announcing one block more than the chain holds.
broadcast_block_longer(block, blockchain_length, source) ==
    {[kind |-> "block", address |-> a, block |-> Some(block),
      transaction |-> None, blockchain_length |-> blockchain_length + 1,
      source |-> source] :
        a \in world \ {source}}

\* broadcast_block that does not skip the source.
broadcast_block_to_all(block, blockchain_length, source) ==
    {[kind |-> "block", address |-> a, block |-> Some(block),
      transaction |-> None, blockchain_length |-> blockchain_length,
      source |-> source] :
        a \in world}

\* broadcast_block: one delivery task for every registered address but source.
broadcast_block(block, blockchain_length, source) ==
    {[kind |-> "block", address |-> a, block |-> Some(block),
      transaction |-> None, blockchain_length |-> blockchain_length,
      source |-> source] :
        a \in world \ {source}}

\* broadcast_transaction: the same fan-out.
broadcast_transaction(transaction, source) ==
    {[kind |-> "transaction", address |-> a, block |-> None,
      transaction |-> Some(transaction), blockchain_length |-> 0,
      source |-> source] : a \in world \ {source}}

\* query_block once the destination's read lock is held.
query_block(block_hash, destination) ==
    IF destination \notin world THEN None
    ELSE get_block(node[destination].blockchain, block_hash)

(***************************************************************************)
(* node.rs: the handlers                                                   *)
(***************************************************************************)
\* receive_new_block replacing a buffered candidate of the same length.
receive_new_block_latest(nd, block, blockchain_length, source) ==
    IF blockchain_length <= len(nd.blockchain) THEN nd
    ELSE IF nd.better_blockchain # None
            /\ Unwrap(nd.better_blockchain).length > blockchain_length
    THEN nd
    ELSE [nd EXCEPT !.better_blockchain =
                        Some(BetterBlockChain(blockchain_length, block, source))]

\* receive_new_block: the node after the call.
receive_new_block(nd, block, blockchain_length, source) ==
    IF blockchain_length <= len(nd.blockchain) THEN nd
    ELSE IF nd.better_blockchain # None
            /\ Unwrap(nd.better_blockchain).length >= blockchain_length
    THEN nd
    ELSE [nd EXCEPT !.better_blockchain =
                        Some(BetterBlockChain(blockchain_length, block, source))]

\* add_transaction: the node after the call; a rejection is dropped.
add_transaction(nd, transaction) ==
    [nd EXCEPT !.mempool = mempool_add_transaction(nd.mempool, transaction).mp]

\* add_client_transaction broadcasting before it looks at the mempool's answer.
add_client_transaction_broadcasts_first(nd, transaction, id) ==
    LET block_transaction ==
            BlockTransaction(id, last_hash(nd.blockchain), transaction)
        r == mempool_add_transaction(nd.mempool, block_transaction)
    IN  [ok |-> r.ok,
         node |-> [nd EXCEPT !.mempool = r.mp],
         broadcast |-> <<[transaction |-> block_transaction,
                          source |-> nd.address]>>]

\* add_client_transaction of a transaction that new_with_random_id gives
\* the id: [ok, node, broadcast], the result, the node after the call and
\* the calls of broadcast_transaction it made.
add_client_transaction(nd, transaction, id) ==
    LET block_transaction ==
            BlockTransaction(id, last_hash(nd.blockchain), transaction)
        r == mempool_add_transaction(nd.mempool, block_transaction)
    IN  IF ~r.ok
        THEN [ok |-> FALSE, node |-> [nd EXCEPT !.mempool = r.mp],
              broadcast |-> <<>>]
        ELSE [ok |-> TRUE, node |-> [nd EXCEPT !.mempool = r.mp],
              broadcast |-> <<[transaction |-> block_transaction,
                               source |-> nd.address]>>]

\* The delivery tasks spawned by a sequence of calls of broadcast_transaction.
Spawned(broadcast) ==
    UNION {broadcast_transaction(broadcast[i].transaction, broadcast[i].source) :
               i \in DOMAIN broadcast}

\* mining leaving the mempool as it is after the block is appended.
mining_keeps_mempool(nd) ==
    LET last_nonce == nd.next_nonce + NODE_MINING_NONCE_STEP
        opt_block == attempt_mining_block(last_hash(nd.blockchain), nd.address,
                                          nd.mempool.transactions,
                                          nd.next_nonce, last_nonce)
    IN  IF opt_block = None
        THEN [node |-> [nd EXCEPT !.next_nonce = last_nonce],
              block |-> None, fatal |-> FALSE]
        ELSE LET r == append_block(nd.blockchain, Unwrap(opt_block))
             IN  IF ~r.ok
                 THEN [node |-> [nd EXCEPT !.blockchain = r.bc],
                       block |-> opt_block, fatal |-> TRUE]
                 ELSE [node |-> [nd EXCEPT !.blockchain = r.bc,
                                           !.next_nonce = 0],
                       block |-> opt_block, fatal |-> FALSE]

\* mining leaving next_nonce where it is after a block is mined.
mining_keeps_nonce(nd) ==
    LET last_nonce == nd.next_nonce + NODE_MINING_NONCE_STEP
        opt_block == attempt_mining_block(last_hash(nd.blockchain), nd.address,
                                          nd.mempool.transactions,
                                          nd.next_nonce, last_nonce)
    IN  IF opt_block = None
        THEN [node |-> [nd EXCEPT !.next_nonce = last_nonce],
              block |-> None, fatal |-> FALSE]
        ELSE LET r == append_block(nd.blockchain, Unwrap(opt_block))
             IN  IF ~r.ok
                 THEN [node |-> [nd EXCEPT !.blockchain = r.bc],
                       block |-> opt_block, fatal |-> TRUE]
                 ELSE [node |-> [nd EXCEPT !.blockchain = r.bc,
                                           !.mempool = mempool_reset(nd.mempool, r.bc)],
                       block |-> opt_block, fatal |-> FALSE]

\* mining building its block without the transactions of the mempool.
mining_empty_block(nd) ==
    LET last_nonce == nd.next_nonce + NODE_MINING_NONCE_STEP
        opt_block == attempt_mining_block(last_hash(nd.blockchain), nd.address,
                                          <<>>, nd.next_nonce, last_nonce)
    IN  IF opt_block = None
        THEN [node |-> [nd EXCEPT !.next_nonce = last_nonce],
              block |-> None, fatal |-> FALSE]
        ELSE LET r == append_block(nd.blockchain, Unwrap(opt_block))
             IN  IF ~r.ok
                 THEN [node |-> [nd EXCEPT !.blockchain = r.bc],
                       block |-> opt_block, fatal |-> TRUE]
                 ELSE [node |-> [nd EXCEPT !.blockchain = r.bc,
                                           !.next_nonce = 0,
                                           !.mempool = mempool_reset(nd.mempool, r.bc)],
                       block |-> opt_block, fatal |-> FALSE]

\* mining: [node, block, fatal]: the node after the call, the mined block
\* (or None) and whether the unreachable! branch was taken.
mining(nd) ==
    LET last_nonce == nd.next_nonce + NODE_MINING_NONCE_STEP
        opt_block == attempt_mining_block(last_hash(nd.blockchain), nd.address,
                                          nd.mempool.transactions,
                                          nd.next_nonce, last_nonce)
    IN  IF opt_block = None
        THEN [node |-> [nd EXCEPT !.next_nonce = last_nonce],
              block |-> None, fatal |-> FALSE]
        ELSE LET r == append_block(nd.blockchain, Unwrap(opt_block))
             IN  IF ~r.ok
                 THEN [node |-> [nd EXCEPT !.blockchain = r.bc],
                       block |-> opt_block, fatal |-> TRUE]
                 ELSE [node |-> [nd EXCEPT !.blockchain = r.bc,
                                           !.next_nonce = 0,
                                           !.mempool = mempool_reset(nd.mempool, r.bc)],
                       block |-> opt_block, fatal |-> FALSE]

(***************************************************************************)
(* The steps of the system.                                                *)
(***************************************************************************)
\* The test of alive going on to the write lock whatever it reads.
CheckAliveIgnored(n) ==
    /\ pc[n] = "check"
    /\ ~node[n].alive \/ n \in stopping
    /\ pc' = [pc EXCEPT ![n] = "acquire"]
    /\ UNCHANGED <<world, node, fetch, outcome, tasks, stopping, accepted, chain_vars, pool_vars>>

\* run_node, line 9: read alive under the read lock.  The read and the
\* acquisition of the write lock are separate steps when a stop of the node
\* is pending or done; otherwise nothing that can run in between reads or
\* writes what they do, and StartPass takes both at once.
CheckAlive(n) ==
    /\ pc[n] = "check"
    /\ ~node[n].alive \/ n \in stopping
    /\ pc' = [pc EXCEPT ![n] = IF node[n].alive THEN "acquire" ELSE "exited"]
    /\ UNCHANGED <<world, node, fetch, outcome, tasks, stopping, accepted, chain_vars, pool_vars>>

\* run_node, lines 13-14: take the write lock and run achieve_consensus up
\* to its first query_block, or to its end.
StartPass(n) ==
    /\ \/ pc[n] = "acquire"
       \/ pc[n] = "check" /\ node[n].alive /\ n \notin stopping
    /\ \E checked \in BOOLEAN :
        LET r == achieve_consensus(node[n], checked)
        IN  /\ node' = [node EXCEPT ![n] = r.node]
            /\ fetch' = [fetch EXCEPT ![n] = r.fetch]
            /\ outcome' = [outcome EXCEPT ![n] = r.outcome]
            /\ pc' = [pc EXCEPT ![n] = PcAfter(r.outcome)]
    /\ UNCHANGED <<world, tasks, stopping, accepted, chain_vars, pool_vars>>

\* node.rs, line 154: query_block answers; achieve_consensus runs on to its
\* next query_block, or to its end.  The read lock of a registered
\* destination is free only when no task holds its write lock.
QueryBlock(n) ==
    /\ pc[n] = "query"
    /\ LET destination == Unwrap(fetch[n]).better_blockchain.source
       IN  /\ destination \in world => ~WriteLocked(destination)
           /\ \E checked \in BOOLEAN :
                LET r == achieve_consensus_resume(
                             node[n], Unwrap(fetch[n]),
                             query_block(Unwrap(fetch[n]).last_common_hash,
                                         destination),
                             checked)
                IN  /\ node' = [node EXCEPT ![n] = r.node]
                    /\ fetch' = [fetch EXCEPT ![n] = r.fetch]
                    /\ outcome' = [outcome EXCEPT ![n] = r.outcome]
                    /\ pc' = [pc EXCEPT ![n] = PcAfter(r.outcome)]
    /\ UNCHANGED <<world, tasks, stopping, accepted, chain_vars, pool_vars>>

\* run_node, lines 15-21: mining, the broadcast of a mined block, release of
\* the write lock and the yield.
Mine(n) ==
    /\ pc[n] = "mine"
    /\ LET r == mining(node[n])
       IN  /\ r.block # None => len(node[n].blockchain) < MaxLen
           /\ node' = [node EXCEPT ![n] = r.node]
           /\ pc' = [pc EXCEPT ![n] = IF r.fatal THEN "panicked" ELSE "check"]
           /\ outcome' = [outcome EXCEPT ![n] = IF r.fatal THEN "fatal" ELSE "idle"]
           /\ tasks' = IF r.block # None /\ ~r.fatal
                       THEN tasks \cup broadcast_block(Unwrap(r.block),
                                                       len(r.node.blockchain), n)
                       ELSE tasks
    /\ UNCHANGED <<world, fetch, stopping, accepted, chain_vars, pool_vars>>

\* A delivery task runs: it looks its target up, takes the target's write
\* lock and calls the handler.  A target that is gone ends the task.
Deliver(t) ==
    /\ t \in tasks
    /\ tasks' = tasks \ {t}
    /\ IF t.address \notin world THEN UNCHANGED node
       ELSE /\ ~WriteLocked(t.address)
            /\ node' = [node EXCEPT ![t.address] =
                   IF t.kind = "block"
                   THEN receive_new_block(@, Unwrap(t.block),
                                          t.blockchain_length, t.source)
                   ELSE add_transaction(@, Unwrap(t.transaction))]
    /\ UNCHANGED <<world, pc, fetch, outcome, stopping, accepted, chain_vars, pool_vars>>

\* server.rs, handle_send_transaction, and node.rs, add_client_transaction:
\* a client submits info to node n; the fresh random id is id.
AddClientTransaction(n, info, id) ==
    /\ n \in world
    /\ ~WriteLocked(n)
    /\ LET r == add_client_transaction(node[n], info, id)
       IN  /\ node' = [node EXCEPT ![n] = r.node]
           /\ tasks' = tasks \cup Spawned(r.broadcast)
           /\ accepted' = IF r.ok THEN accepted + 1 ELSE accepted
           /\ r.ok => accepted < MaxTransactions
    /\ UNCHANGED <<world, pc, fetch, outcome, stopping, chain_vars, pool_vars>>

\* A peer is suspended in a query_block addressed to node n.
FetchedFrom(n) ==
    \E m \in Nodes :
        pc[m] = "query" /\ Unwrap(fetch[m]).better_blockchain.source = n

\* world.rs, delete_node, line 52: remove the address from the World.  The
\* deletions explored are those that race with a fetch from the node.
DeleteNode(n) ==
    /\ n \in world
    /\ FetchedFrom(n)
    /\ world' = world \ {n}
    /\ stopping' = stopping \cup {n}
    /\ UNCHANGED <<node, pc, fetch, outcome, tasks, accepted, chain_vars, pool_vars>>

\* world.rs, delete_node, line 56: take the write lock and stop the node.
StopNode(n) ==
    /\ n \in stopping
    /\ ~WriteLocked(n)
    /\ node' = [node EXCEPT ![n].alive = FALSE]
    /\ stopping' = stopping \ {n}
    /\ UNCHANGED <<world, pc, fetch, outcome, tasks, accepted, chain_vars, pool_vars>>

\* The transfers the clients ask for.
ClientTransactions ==
    {Transaction(p[1], p[2], a) :
        p \in {q \in Addresses \X Addresses : q[1] # q[2]}, a \in Amounts}

\* A fresh random id is any id; the ids are named in the order of their
\* first use in the pool, so the id is one the pool holds or the next one.
FreshIds(n) == {id \in TxIds : id <= Len(node[n].mempool.transactions) + 1}

Next ==
    \/ \E n \in Nodes : CheckAlive(n)
    \/ \E n \in Nodes : StartPass(n)
    \/ \E n \in Nodes : QueryBlock(n)
    \/ \E n \in Nodes : Mine(n)
    \/ \E t \in tasks : Deliver(t)
    \/ \E n \in ClientNodes, info \in ClientTransactions :
         \E id \in FreshIds(n) : AddClientTransaction(n, info, id)
    \/ \E n \in Deletable : DeleteNode(n)
    \/ \E n \in Nodes : StopNode(n)

Spec == Init /\ [][Next]_vars

\* The steps of the run loop of node n.
RunLoop(n) == CheckAlive(n) \/ StartPass(n) \/ QueryBlock(n) \/ Mine(n)

\* The node that the suspended achieve_consensus of node n queries.
QueriedBy(n) == Unwrap(fetch[n]).better_blockchain.source

\* The run loop of node n can take a step that needs no lock of another
\* node: the write lock of its own node (free whenever the loop does not
\* hold it, every other holder being one atomic step) or the mining step.
CanRun(n) ==
    \/ pc[n] = "acquire"
    \/ pc[n] = "check" /\ node[n].alive /\ n \notin stopping
    \/ /\ pc[n] = "mine"
       /\ mining(node[n]).block # None => len(node[n].blockchain) < MaxLen

\* The query_block of node n can get the read lock of its destination.
CanQuery(n) ==
    /\ pc[n] = "query"
    /\ QueriedBy(n) \in world => ~WriteLocked(QueriedBy(n))

\* A step of the run loop of node n past its test of alive.
RunStep(n) == pc'[n] # pc[n] \/ fetch'[n] # fetch[n]

\* The scheduling of tokio: a task that can run does run, and a task queued
\* on a lock gets it once its holders release it, the RwLock being fair.
\* So the run loops take their steps (weak fairness of StartPass and Mine,
\* written with their enabling conditions), and a query_block or a stop
\* that waits for a lock which is free again and again gets it (strong
\* fairness).
Fairness ==
    /\ \A n \in Nodes : WF_vars(CheckAlive(n))
    /\ \A n \in Nodes : <>[]CanRun(n) => []<><<RunStep(n)>>_vars
    /\ \A n \in Nodes : []<>CanQuery(n) => []<><<RunStep(n)>>_vars
    /\ \A n \in Nodes : SF_vars(StopNode(n))

\* world.rs, delete_node, lines 51-55, at any moment: an address that is not
\* registered is left alone.
DeleteNodeAnytime(n) ==
    IF n \in world
    THEN /\ world' = world \ {n}
         /\ stopping' = stopping \cup {n}
         /\ UNCHANGED <<node, pc, fetch, outcome, tasks, accepted, chain_vars, pool_vars>>
    ELSE UNCHANGED vars

\* CancelSpec: the network without clients, whose nodes mine, announce,
\* adopt, and are deleted at any moment, under fair scheduling.
CancelNext ==
    \/ \E n \in Nodes : CheckAlive(n)
    \/ \E n \in Nodes : StartPass(n)
    \/ \E n \in Nodes : QueryBlock(n)
    \/ \E n \in Nodes : Mine(n)
    \/ \E t \in tasks : Deliver(t)
    \/ \E n \in Deletable : DeleteNodeAnytime(n)
    \/ \E n \in Nodes : StopNode(n)

CancelSpec == Init /\ [][CancelNext]_vars /\ Fairness

(***************************************************************************)
(* ChainSpec: one BlockChain, fed with blocks of every kind.               *)
(***************************************************************************)
\* The hashes a block or a transaction names as its prefix: the last hash
\* of the chain, and the hash of the genesis block (stale on a longer chain).
TestPrefixes(bc) == {last_hash(bc), Hash(Genesis)}

TestTransactions(bc) ==
    {BlockTransaction(id, h, info) :
        id \in TxIds, h \in TestPrefixes(bc), info \in ClientTransactions}

\* The transaction lists of a block: at most two transactions.
TestTransactionLists(bc) ==
    {<<>>} \cup {<<t>> : t \in TestTransactions(bc)}
           \cup {<<t, u>> : t \in TestTransactions(bc), u \in TestTransactions(bc)}

\* The blocks passed to append_block: well mined or not, on the last hash or
\* not, with transactions that are valid or not.
TestBlocks(bc) ==
    {Block(txs, h, miner, nonce) :
        txs \in TestTransactionLists(bc), h \in TestPrefixes(bc),
        miner \in Addresses, nonce \in 0..NODE_MINING_NONCE_STEP}

\* A chain that rejected a block, or that a pop panicked on, is not used
\* again: achieve_consensus drops its clone, mining takes the rejection for
\* impossible, and a panic ends the task.
InUse == ~tcall.panic /\ (tcall.op = "append" => tcall.ok)

TestAppend(block) ==
    /\ InUse
    /\ len(tchain) < MaxChainLen
    /\ LET r == append_block(tchain, block)
       IN  /\ tchain' = r.bc
           /\ tcall' = [op |-> "append", ok |-> r.ok, block |-> Some(block),
                        before |-> tchain, panic |-> FALSE,
                        overflow |-> FALSE]
    /\ UNCHANGED <<tmine, network_vars, pool_vars>>

\* pop_block, in a build with overflow checks (checked) or without.
TestPop(checked) ==
    /\ InUse
    /\ LET r == pop_block(tchain, checked)
       IN  /\ tchain' = r.bc
           /\ tcall' = [op |-> "pop", ok |-> r.block # None, block |-> r.block,
                        before |-> tchain, panic |-> r.panic,
                        overflow |-> r.overflow]
    /\ UNCHANGED <<tmine, network_vars, pool_vars>>

ChainNext ==
    \/ \E block \in TestBlocks(tchain) : TestAppend(block)
    \/ \E checked \in BOOLEAN : TestPop(checked)

ChainSpec == Init /\ [][ChainNext]_vars

(***************************************************************************)
(* PoolSpec: one node and its MemPool, fed with transactions and with      *)
(* announcements of every kind.  The node mines, so that its pool is reset *)
(* on chains that hold coins.                                              *)
(***************************************************************************)
\* MemPool::add_transaction called on the pool of the node.
(***************************************************************************)
(* MineSpec: attempt_mining_block called on its own.                       *)
(***************************************************************************)
\* The prefixes mined on: none, the genesis block's hash, and the hash of a
\* block on the genesis block.
MinePrefixes ==
    {EmptyHash, Hash(Genesis), Hash(Block(<<>>, Hash(Genesis), 1, 0))}

\* The transaction lists mined: none, one transaction, two transactions.
MineTransactionLists(prefix_hash) ==
    {<<>>}
    \cup {<<BlockTransaction(1, prefix_hash, info)>> :
              info \in ClientTransactions}
    \cup {<<BlockTransaction(1, prefix_hash, info),
            BlockTransaction(2, prefix_hash, info)>> :
              info \in ClientTransactions}

\* attempt_mining_block(prefix_hash, miner, transactions, lo..hi): the
\* ranges are the windows of Node::mining and longer and shorter ones, the
\* empty ones (hi <= lo) included.
TestMine(prefix_hash, miner, transactions, lo, hi) ==
    /\ tmine' = [op |-> "mine", prefix_hash |-> prefix_hash, miner |-> miner,
                 transactions |-> transactions, lo |-> lo, hi |-> hi,
                 block |-> attempt_mining_block(prefix_hash, miner,
                                                transactions, lo, hi)]
    /\ UNCHANGED <<tchain, tcall, network_vars, pool_vars>>

MineNext ==
    \E prefix_hash \in MinePrefixes, miner \in Addresses,
       lo \in 0..(3 * NODE_MINING_NONCE_STEP),
       hi \in 0..(3 * NODE_MINING_NONCE_STEP) :
        \E transactions \in MineTransactionLists(prefix_hash) :
            TestMine(prefix_hash, miner, transactions, lo, hi)

MineSpec == Init /\ [][MineNext]_vars

PoolAdd(transaction) ==
    /\ LET r == mempool_add_transaction(tnode.mempool, transaction)
       IN  /\ tnode' = [tnode EXCEPT !.mempool = r.mp]
           /\ pcall' = [op |-> "add", ok |-> r.ok,
                        transaction |-> Some(transaction),
                        announcement |-> None, broadcast |-> <<>>,
                        spawned |-> {}, before |-> tnode]
    /\ UNCHANGED <<network_vars, chain_vars>>

\* Node::add_transaction, the handler of a delivery: it returns nothing.
PoolDeliver(transaction) ==
    /\ tnode' = add_transaction(tnode, transaction)
    /\ pcall' = [op |-> "deliver", ok |-> TRUE,
                 transaction |-> Some(transaction),
                 announcement |-> None, broadcast |-> <<>>,
                 spawned |-> {}, before |-> tnode]
    /\ UNCHANGED <<network_vars, chain_vars>>

\* Node::mining: a block of the pool's transactions, and the pool reset.
PoolMine ==
    /\ LET r == mining(tnode)
       IN  /\ ~r.fatal
           /\ r.block # None => len(tnode.blockchain) < MaxChainLen
           /\ tnode' = r.node
           /\ pcall' = [op |-> "mine", ok |-> r.block # None,
                        transaction |-> None, announcement |-> None,
                        broadcast |-> <<>>, spawned |-> {}, before |-> tnode]
    /\ UNCHANGED <<network_vars, chain_vars>>

\* The announcements delivered to the node: receive_new_block looks at the
\* length only, so the blocks are two blocks told apart by their miner, and
\* the lengths go from below the chain's to above it.
TestAnnouncements ==
    {BetterBlockChain(L, Block(<<>>, Hash(Genesis), miner, 0), source) :
        L \in 1..(MaxChainLen + 1), miner \in Addresses,
        source \in Addresses \ {tnode.address}}

\* Node::receive_new_block, the handler of a delivered announcement.
PoolReceive(announcement) ==
    /\ tnode' = receive_new_block(tnode, announcement.last_block,
                                  announcement.length, announcement.source)
    /\ pcall' = [op |-> "receive", ok |-> TRUE, transaction |-> None,
                 announcement |-> Some(announcement), broadcast |-> <<>>,
                 spawned |-> {}, before |-> tnode]
    /\ UNCHANGED <<network_vars, chain_vars>>

\* Node::add_client_transaction, the handler of a client's request; the
\* fresh random id is id.  The call is recorded with the request: the
\* client's transfer and the id drawn, no prefix being named yet.
PoolClient(info, id) ==
    /\ LET r == add_client_transaction(tnode, info, id)
       IN  /\ tnode' = r.node
           /\ pcall' = [op |-> "client", ok |-> r.ok,
                        transaction |-> Some(BlockTransaction(id, EmptyHash, info)),
                        announcement |-> None, broadcast |-> r.broadcast,
                        spawned |-> Spawned(r.broadcast), before |-> tnode]
    /\ UNCHANGED <<network_vars, chain_vars>>

PoolNext ==
    \/ \E transaction \in TestTransactions(tnode.blockchain) : PoolAdd(transaction)
    \/ \E transaction \in TestTransactions(tnode.blockchain) : PoolDeliver(transaction)
    \/ PoolMine
    \/ \E announcement \in TestAnnouncements : PoolReceive(announcement)
    \/ \E info \in ClientTransactions, id \in TxIds : PoolClient(info, id)

PoolSpec == Init /\ [][PoolNext]_vars

(***************************************************************************)
(* Properties.                                                             *)
(***************************************************************************)
\* The blocks of a chain past the genesis block, in order.
ChainBlocks(bc) == [i \in 1..(Len(bc.chain) - 1) |-> bc.blocks[bc.chain[i + 1]]]

\* What the transactions txs credit to address a, less what they debit.
RECURSIVE TransactionsNet(_, _)
TransactionsNet(txs, a) ==
    IF txs = <<>> THEN 0
    ELSE (IF Head(txs).info.receiver = a THEN Head(txs).info.amount ELSE 0)
         - (IF Head(txs).info.sender = a THEN Head(txs).info.amount ELSE 0)
         + TransactionsNet(Tail(txs), a)

\* What the blocks credit to address a, less what they debit.
RECURSIVE BlocksNet(_, _)
BlocksNet(blocks, a) ==
    IF blocks = <<>> THEN 0
    ELSE (IF Head(blocks).miner = a THEN COINS_PER_MINED_BLOCK ELSE 0)
         + TransactionsNet(Head(blocks).transactions, a)
         + BlocksNet(Tail(blocks), a)

\* Some transaction of txs, applied in order from balance, asks for more
\* than its sender holds at that moment.
RECURSIVE Overdraws(_, _)
Overdraws(balance, txs) ==
    IF txs = <<>> THEN FALSE
    ELSE LET t == Head(txs)
         IN  \/ GetOrZero(balance, t.info.sender) < t.info.amount
             \/ Overdraws(AddTo(AddTo(balance, t.info.sender, 0 - t.info.amount),
                                t.info.receiver, t.info.amount),
                          Tail(txs))

\* Two chains have the same sequence, the same blocks and give every address
\* the same balance.
SameChain(a, b) ==
    /\ a.chain = b.chain
    /\ a.blocks = b.blocks
    /\ \A x \in Addresses : balance_of(a, x) = balance_of(b, x)

\* The block passed to append_block passes every check made before the loop
\* over its transactions, and every transaction names the block's prefix.
PassesStructuralChecks(bc, block) ==
    /\ block.prefix_hash = last_hash(bc)
    /\ leading_zero_bits(Hash(block)) >= MINING_DIFFICULTY
    /\ UniqueIds(block.transactions)
    /\ \A i \in 1..Len(block.transactions) :
           block.transactions[i].prefix_hash = block.prefix_hash

(***************************************************************************)
(* C1                                                                      *)
(***************************************************************************)
\* C1: an append_block that returns Err leaves the chain as it was before
\* the call: the same sequence, the same blocks, the same balance for every
\* address.
C1_RejectedAppendChangesNothing ==
    (tcall.op = "append" /\ ~tcall.ok) => SameChain(tchain, tcall.before)

(***************************************************************************)
(* C2                                                                      *)
(***************************************************************************)
\* The places of a chain that hold a transaction: <<block, index>>.
Places(bc) ==
    UNION {{<<i, k>> : k \in 1..Len(ChainBlocks(bc)[i].transactions)} :
              i \in 1..(Len(bc.chain) - 1)}

TransactionAt(bc, p) == ChainBlocks(bc)[p[1]].transactions[p[2]]

\* C2: no BlockTransaction (id and prefix_hash) occurs at two places of the
\* chain, neither twice in a block nor in two blocks, and every transaction
\* of an accepted block names the last hash the block was appended on.
C2_NoTransactionTwice ==
    /\ \A p, q \in Places(tchain) :
           p # q =>
               \/ TransactionAt(tchain, p).id # TransactionAt(tchain, q).id
               \/ TransactionAt(tchain, p).prefix_hash
                      # TransactionAt(tchain, q).prefix_hash
    /\ (tcall.op = "append" /\ tcall.ok) =>
           \A i \in 1..Len(Unwrap(tcall.block).transactions) :
               Unwrap(tcall.block).transactions[i].prefix_hash
                   = last_hash(tcall.before)

\* A chain holds a block of two transactions.
C2_Witness ==
    /\ tcall.op = "append" /\ tcall.ok
    /\ len(tchain) = MaxChainLen
    /\ Len(last_block(tchain).transactions) = 2

(***************************************************************************)
(* C3                                                                      *)
(***************************************************************************)
\* C3: on every node's chain the balance of every address is what the
\* blocks of the sequence credit to it less what they debit; and a chain of
\* n empty blocks all mined by its own node has length n + 1 and a balance
\* map that holds 1000 * n for that node and no other entry.
C3_BalanceIsSumOverBlocks ==
    \A n \in Nodes :
        LET bc == node[n].blockchain
            blocks == ChainBlocks(bc)
        IN  /\ \A a \in Addresses \cup DOMAIN bc.balance :
                   balance_of(bc, a) = BlocksNet(blocks, a)
            /\ (\A i \in 1..Len(blocks) :
                    blocks[i].miner = n /\ blocks[i].transactions = <<>>)
               => /\ len(bc) = Len(blocks) + 1
                  /\ balance_of(bc, n) = 1000 * Len(blocks)
                  /\ DOMAIN bc.balance \subseteq {n}

\* A node has adopted a chain that carries transactions.
C3_Witness ==
    \E n \in Nodes :
        /\ outcome[n] = "adopted"
        /\ \E i \in 1..(len(node[n].blockchain) - 1) :
               ChainBlocks(node[n].blockchain)[i].transactions # <<>>

(***************************************************************************)
(* C4                                                                      *)
(***************************************************************************)
\* C4: on every node's chain, for every adjacent pair (p, c) of the
\* sequence, blocks[c].prefix_hash = p, c is the hash of blocks[c], and
\* blocks[c] is well mined; the chains adopted from peers included.
C4_ChainIsLinkedAndMined ==
    \A n \in Nodes :
        LET bc == node[n].blockchain
        IN  /\ DOMAIN bc.blocks = {bc.chain[i] : i \in 1..Len(bc.chain)}
            /\ \A i \in 2..Len(bc.chain) :
                   LET c == bc.chain[i]
                   IN  /\ bc.blocks[c].prefix_hash = bc.chain[i - 1]
                       /\ c = Hash(bc.blocks[c])
                       /\ leading_zero_bits(c) >= MINING_DIFFICULTY

\* A node has adopted a chain of two blocks or more from its peer.
C4_Witness ==
    \E n \in Nodes :
        /\ outcome[n] = "adopted"
        /\ len(node[n].blockchain) >= 3
        /\ last_block(node[n].blockchain).miner # n

(***************************************************************************)
(* C5                                                                      *)
(***************************************************************************)
\* C5: a step of a node's achieve_consensus that does not adopt the
\* candidate leaves the node's chain, mempool and next_nonce as they were,
\* and the candidate slot is empty after it.
C5_ReorgAllOrNothing ==
    [][\A n \in Nodes :
           (/\ pc[n] \in {"check", "acquire", "query"}
            /\ pc'[n] \in {"query", "mine", "panicked"}
            /\ outcome'[n] # "adopted")
           => /\ node'[n].blockchain = node[n].blockchain
              /\ node'[n].mempool = node[n].mempool
              /\ node'[n].next_nonce = node[n].next_nonce
              /\ node'[n].better_blockchain = None]_vars

\* A pass was abandoned because query_block returned None, on a node that
\* holds a chain and a mempool of its own.
C5_Witness ==
    \E n \in Nodes :
        /\ outcome[n] = "fetch_failed"
        /\ pc[n] = "mine"
        /\ len(node[n].blockchain) > 1

(***************************************************************************)
(* C6                                                                      *)
(***************************************************************************)
\* The candidate of the pass of node n that is under way or about to start.
Candidate(n) ==
    IF pc[n] = "query" THEN Unwrap(fetch[n]).better_blockchain
    ELSE Unwrap(node[n].better_blockchain)

\* C6: when a pass of node n with candidate (L, T, S) ends, L is more than
\* the length of n's chain, and S is registered and holds a chain of length
\* L whose last block is T, then n's sequence and blocks are those of S,
\* every address has the balance it has on S, next_nonce is 0 and the
\* mempool is reset on the new chain.
C6_AdoptsLongerChain ==
    [][\A n \in Nodes :
           (/\ \/ pc[n] = "query"
               \/ pc[n] \in {"check", "acquire"}
                  /\ node[n].better_blockchain # None
            /\ pc'[n] \in {"mine", "panicked"}
            /\ Candidate(n).length > len(node[n].blockchain)
            /\ Candidate(n).source \in world
            /\ len(node[Candidate(n).source].blockchain) = Candidate(n).length
            /\ last_block(node[Candidate(n).source].blockchain)
                   = Candidate(n).last_block)
           => /\ SameChain(node'[n].blockchain,
                           node[Candidate(n).source].blockchain)
              /\ node'[n].next_nonce = 0
              /\ node'[n].mempool = NewMemPool(node'[n].blockchain)]_vars

(***************************************************************************)
(* C7                                                                      *)
(***************************************************************************)
\* C7: no step makes the chain of a node shorter, and a step that changes
\* the sequence of a node makes it strictly longer.
C7_LengthNeverDecreases ==
    [][\A n \in Nodes :
           /\ len(node'[n].blockchain) >= len(node[n].blockchain)
           /\ node'[n].blockchain.chain # node[n].blockchain.chain
              => len(node'[n].blockchain) > len(node[n].blockchain)]_vars

\* A reorg has replaced a block the node had mined itself by a longer fork:
\* no block of the adopted chain names the node, and yet its balance map
\* holds the entry of the node, which the pop of its own block left.
C7_Witness ==
    \E n \in Nodes :
        /\ outcome[n] = "adopted"
        /\ n \in DOMAIN node[n].blockchain.balance
        /\ \A i \in 1..(len(node[n].blockchain) - 1) :
               /\ ChainBlocks(node[n].blockchain)[i].miner # n
               /\ ChainBlocks(node[n].blockchain)[i].transactions = <<>>

(***************************************************************************)
(* C8                                                                      *)
(***************************************************************************)
\* C8: a pop_block that follows an accepted append_block(b) returns b and
\* restores the sequence, the blocks and the balance of every address; a
\* pop_block on a chain whose last block is the genesis block returns None
\* and changes nothing.
C8_AppendPopRoundTrip ==
    [][tcall'.op = "pop" =>
           /\ (tcall.op = "append" /\ tcall.ok) =>
                  /\ ~tcall'.panic
                  /\ tcall'.block = tcall.block
                  /\ SameChain(tchain', tcall.before)
           /\ is_genesis(last_block(tchain)) =>
                  /\ tcall'.block = None
                  /\ tchain' = tchain]_vars

(***************************************************************************)
(* C9                                                                      *)
(***************************************************************************)
\* C9: no balance of the chain is negative, and append_block accepts a
\* block only if none of its transactions, applied in order from the
\* balances before the block (the block's own reward not counted), asks for
\* more than its sender holds.
C9_NoOverdraw ==
    /\ \A a \in DOMAIN tchain.balance : tchain.balance[a] >= 0
    /\ (tcall.op = "append" /\ tcall.ok) =>
           ~Overdraws(tcall.before.balance, Unwrap(tcall.block).transactions)

\* A block that passes every other check was rejected because its second
\* transaction overdraws its sender after the first one was applied.
C9_Witness ==
    /\ tcall.op = "append" /\ ~tcall.ok
    /\ PassesStructuralChecks(tcall.before, Unwrap(tcall.block))
    /\ Len(Unwrap(tcall.block).transactions) = 2
    /\ ~Overdraws(tcall.before.balance,
                  SubSeq(Unwrap(tcall.block).transactions, 1, 1))
    /\ Overdraws(tcall.before.balance, Unwrap(tcall.block).transactions)

(***************************************************************************)
(* C10                                                                     *)
(***************************************************************************)
\* C10: the block a node builds from the last hash of its chain, its own
\* address and the transactions of its mempool passes append_block on its
\* own chain whenever its nonce is valid, and mining never takes its
\* unreachable! branch.
C10_OwnBlockAccepted ==
    \A n \in Nodes :
        /\ outcome[n] # "fatal"
        /\ \A nonce \in 0..(2 * NODE_MINING_NONCE_STEP) :
               LET block == Block(node[n].mempool.transactions,
                                  last_hash(node[n].blockchain), n, nonce)
               IN  leading_zero_bits(Hash(block)) >= MINING_DIFFICULTY
                       => append_block(node[n].blockchain, block).ok

\* A node has mined and appended a block of two transactions.
C10_Witness ==
    \E n \in Nodes :
        /\ outcome[n] = "idle"
        /\ last_block(node[n].blockchain).miner = n
        /\ Len(last_block(node[n].blockchain).transactions) = 2

(***************************************************************************)
(* C11                                                                     *)
(***************************************************************************)
\* The three reasons for which the pool mp turns the transaction tx down.
Rejects(mp, tx) ==
    \/ tx.prefix_hash # mp.prefix_hash
    \/ tx.id \in mp.transaction_ids
    \/ GetOrZero(mp.balance, tx.info.sender) < tx.info.amount

\* C11: MemPool::add_transaction returns an error exactly when the
\* transaction names another prefix than the pool's, or its id is in the
\* pool, or its sender's provisional balance is below the amount; otherwise
\* it returns ok, puts the transaction at the end of the pending list,
\* records its id, and moves the amount from the sender to the receiver in
\* the provisional balance.  The sender of an admitted transaction held the
\* amount, and no provisional balance is negative.
C11_AddAdmitsFundedFreshTransactions ==
    /\ \A a \in DOMAIN tnode.mempool.balance : tnode.mempool.balance[a] >= 0
    /\ pcall.op = "add" =>
         LET mp == pcall.before.mempool
             now == tnode.mempool
             tx == Unwrap(pcall.transaction)
         IN  /\ pcall.ok <=> ~Rejects(mp, tx)
             /\ pcall.ok =>
                  /\ GetOrZero(mp.balance, tx.info.sender) >= tx.info.amount
                  /\ now.transactions = Append(mp.transactions, tx)
                  /\ now.transaction_ids = mp.transaction_ids \cup {tx.id}
                  /\ now.prefix_hash = mp.prefix_hash
                  /\ \A a \in Addresses :
                       GetOrZero(now.balance, a)
                           = GetOrZero(mp.balance, a) + TransactionsNet(<<tx>>, a)

\* A second transaction has been admitted behind a pending one.
C11_Witness ==
    /\ pcall.op = "add"
    /\ pcall.ok
    /\ Len(pcall.before.mempool.transactions) = 1
    /\ Len(tnode.mempool.transactions) = 2

(***************************************************************************)
(* C12                                                                     *)
(***************************************************************************)
\* C12: a call of MemPool::add_transaction that rejects leaves the pool as
\* it was: prefix, ids, pending list and provisional balances, with no
\* entry added to the balance map.  Node::add_transaction, the handler of a
\* delivered transaction, leaves the whole node as it was when the pool
\* rejects, and has no result to report.
C12_RejectionChangesNothing ==
    (pcall.op \in {"add", "deliver"}
        /\ Rejects(pcall.before.mempool, Unwrap(pcall.transaction)))
    => /\ tnode = pcall.before
       /\ DOMAIN tnode.mempool.balance = DOMAIN pcall.before.mempool.balance
       /\ pcall.op = "add" => ~pcall.ok

\* A delivered transaction on the pool's prefix and with a fresh id has
\* been rejected for lack of funds, its sender having no balance entry.
C12_Witness ==
    /\ pcall.op = "deliver"
    /\ LET mp == pcall.before.mempool
           tx == Unwrap(pcall.transaction)
       IN  /\ tx.prefix_hash = mp.prefix_hash
           /\ tx.id \notin mp.transaction_ids
           /\ tx.info.sender \notin DOMAIN mp.balance
           /\ mp.balance # <<>>

(***************************************************************************)
(* C13                                                                     *)
(***************************************************************************)
\* C13: in every state of every node, the provisional balance of each
\* address in the mempool is its balance in the chain plus the net effect
\* of the pending transactions; a mempool without pending transactions is
\* the one MemPool::new builds from the chain: the chain's balance map, no
\* id, and the chain's last hash as its prefix.
C13_PoolBalanceIsChainPlusPending ==
    \A n \in Nodes :
        LET mp == node[n].mempool
            bc == node[n].blockchain
        IN  /\ \A a \in Addresses :
                   GetOrZero(mp.balance, a)
                       = balance_of(bc, a) + TransactionsNet(mp.transactions, a)
            /\ mp.transaction_ids = {mp.transactions[i].id : i \in DOMAIN mp.transactions}
            /\ mp.transactions = <<>> =>
                   /\ mp.balance = bc.balance
                   /\ mp.transaction_ids = {}
                   /\ mp.prefix_hash = last_hash(bc)

\* A node holds two pending transactions on a chain it has mined on, and
\* another node's mempool has been reset on a chain with blocks.
C13_Witness ==
    \E n \in Nodes, m \in Nodes :
        /\ n # m
        /\ Len(node[n].mempool.transactions) = 2
        /\ len(node[n].blockchain) >= 2
        /\ len(node[m].blockchain) >= 2
        /\ node[m].mempool.transactions = <<>>

(***************************************************************************)
(* C14                                                                     *)
(***************************************************************************)
\* The transaction tx is in the block.
InBlock(tx, block) ==
    \E i \in DOMAIN block.transactions : block.transactions[i] = tx

\* C14: whenever the write lock of a node is free, the prefix of its
\* mempool is the last hash of its chain and every pending transaction
\* names that hash.  Every change of the last hash, by a block the node
\* mined or by an adopted chain, leaves the mempool empty.  After an
\* adoption a transaction that was pending is in the node's chain only
\* inside a block that the adoption brought, built by another node on the
\* hash the transaction names.
C14_PoolFollowsTip ==
    [][\A n \in Nodes :
          LET bc == node[n].blockchain
              new == node'[n].blockchain
              mp == node'[n].mempool
          IN  /\ pc'[n] \notin {"query", "mine"} =>
                    /\ mp.prefix_hash = last_hash(new)
                    /\ \A i \in DOMAIN mp.transactions :
                           mp.transactions[i].prefix_hash = last_hash(new)
              /\ last_hash(new) # last_hash(bc) => mp = NewMemPool(new)
              /\ (last_hash(new) # last_hash(bc) /\ pc[n] # "mine") =>
                    \A i \in DOMAIN node[n].mempool.transactions :
                        \A h \in DOMAIN new.blocks :
                            InBlock(node[n].mempool.transactions[i], new.blocks[h])
                            => /\ h \notin DOMAIN bc.blocks
                               /\ new.blocks[h].miner # n
                               /\ new.blocks[h].prefix_hash
                                      = node[n].mempool.transactions[i].prefix_hash
      ]_vars

\* A node that had accepted a client transaction on its own block has just
\* adopted a chain one block longer: the transaction is in no block of its
\* chain and its mempool is empty.
C14_Witness ==
    \E n \in ClientNodes :
        /\ pc[n] = "mine"
        /\ outcome[n] = "adopted"
        /\ accepted >= 1
        /\ len(node[n].blockchain) = 3
        /\ node[n].mempool = NewMemPool(node[n].blockchain)
        /\ \A h \in DOMAIN node[n].blockchain.blocks :
               node[n].blockchain.blocks[h].transactions = <<>>

(***************************************************************************)
(* C15                                                                     *)
(***************************************************************************)
\* C15: receive_new_block(block, L, source) stores the announcement as the
\* candidate exactly when L is above the length of the node's chain and no
\* candidate of length L or more is buffered; otherwise it changes nothing.
\* It never changes the chain, the mempool or next_nonce.  So the buffer
\* holds at most one candidate, no shorter than an announcement just
\* received that was longer than the chain, and of two announcements of one
\* length the earlier stays.
C15_ReceiveKeepsLongestAnnouncement ==
    pcall.op = "receive" =>
        LET nd == pcall.before
            an == Unwrap(pcall.announcement)
            L == an.length
            stored == /\ L > len(nd.blockchain)
                      /\ \/ nd.better_blockchain = None
                         \/ Unwrap(nd.better_blockchain).length < L
        IN  /\ tnode = IF stored
                       THEN [nd EXCEPT !.better_blockchain =
                                Some([length |-> L, last_block |-> an.last_block,
                                      source |-> an.source])]
                       ELSE nd
            /\ tnode.blockchain = nd.blockchain
            /\ tnode.mempool = nd.mempool
            /\ tnode.next_nonce = nd.next_nonce
            /\ Len(tnode.better_blockchain) <= 1
            /\ L > len(nd.blockchain) =>
                   /\ tnode.better_blockchain # None
                   /\ Unwrap(tnode.better_blockchain).length >= L
            /\ (nd.better_blockchain # None
                   /\ Unwrap(nd.better_blockchain).length = L)
               => tnode.better_blockchain = nd.better_blockchain

\* An announcement longer than the chain has been received while another
\* announcement of the same length was buffered, and the buffered one stays.
C15_Witness ==
    /\ pcall.op = "receive"
    /\ pcall.before.better_blockchain # None
    /\ LET an == Unwrap(pcall.announcement)
           buffered == Unwrap(pcall.before.better_blockchain)
       IN  /\ an.length > len(pcall.before.blockchain)
           /\ buffered.length = an.length
           /\ buffered.last_block # an.last_block
           /\ tnode.better_blockchain = Some(buffered)

(***************************************************************************)
(* C16                                                                     *)
(***************************************************************************)
\* The nonces of the window of node n that make a valid block of its
\* mempool's transactions on the last hash of its chain.
WinningNonces(n) ==
    {nonce \in node[n].next_nonce
                  ..(node[n].next_nonce + NODE_MINING_NONCE_STEP - 1) :
        leading_zero_bits(Hash(Block(node[n].mempool.transactions,
                                     last_hash(node[n].blockchain), n, nonce)))
            >= MINING_DIFFICULTY}

\* The step of node n is its call of mining: it ends the pass.
MiningStep(n) == pc[n] = "mine" /\ pc'[n] # "mine"

\* C16: a call of mining in which no nonce of the window
\* [next_nonce, next_nonce + NODE_MINING_NONCE_STEP) succeeds only advances
\* next_nonce by NODE_MINING_NONCE_STEP: chain, mempool and candidate are
\* unchanged and nothing is broadcast.  When a nonce succeeds the chain
\* grows by exactly that block, next_nonce is 0, the mempool is reset on
\* the new last hash, and one broadcast is issued: the new last block, the
\* length of the chain after the append, and the node's own address, to
\* every registered peer.
C16_MiningFrame ==
    [][\A n \in Nodes : MiningStep(n) =>
          LET nd == node[n]
              new == node'[n]
              block == last_block(new.blockchain)
          IN  /\ \A m \in Nodes \ {n} : node'[m] = node[m]
              /\ IF WinningNonces(n) = {}
                 THEN /\ new = [nd EXCEPT !.next_nonce = @ + NODE_MINING_NONCE_STEP]
                      /\ tasks' = tasks
                 ELSE /\ block \in {Block(nd.mempool.transactions,
                                          last_hash(nd.blockchain), n, nonce) :
                                        nonce \in WinningNonces(n)}
                      /\ new.blockchain.chain
                             = Append(nd.blockchain.chain, Hash(block))
                      /\ ChainBlocks(new.blockchain)
                             = Append(ChainBlocks(nd.blockchain), block)
                      /\ new.next_nonce = 0
                      /\ new.mempool = NewMemPool(new.blockchain)
                      /\ new.better_blockchain = nd.better_blockchain
                      /\ new.alive = nd.alive
                      /\ tasks \cap (tasks' \ tasks) = {}
                      /\ tasks' \ tasks
                             = {[kind |-> "block", address |-> a,
                                 block |-> Some(block), transaction |-> None,
                                 blockchain_length |-> len(new.blockchain),
                                 source |-> n] : a \in world \ {n}}
                      /\ tasks \subseteq tasks'
      ]_vars

\* A node has mined a block in its second window, the first having failed,
\* and the announcement of the block is on its way to the other node.
C16_Witness ==
    \E n \in Nodes :
        /\ pc[n] = "check"
        /\ node[n].next_nonce = 0
        /\ last_block(node[n].blockchain).miner = n
        /\ last_block(node[n].blockchain).nonce >= NODE_MINING_NONCE_STEP
        /\ \E t \in tasks :
               /\ t.kind = "block"
               /\ t.source = n
               /\ t.block = Some(last_block(node[n].blockchain))
               /\ t.blockchain_length = len(node[n].blockchain)

(***************************************************************************)
(* C17                                                                     *)
(***************************************************************************)
\* C17: add_client_transaction wraps the client's transfer with a fresh id
\* and the last hash of the node's chain and offers it to the mempool.  If
\* the mempool rejects it (as it does the second of two pending spends of
\* 700 against a balance of 1000) the call returns an error, the node is
\* unchanged and nothing is broadcast; if the mempool accepts it the call
\* returns ok and the wrapped transaction is broadcast once, to every peer
\* but the node itself.  So a node issues as many broadcasts of
\* transactions as it has accepted client transactions.
C17_ClientTransactionBroadcastOnceIfAccepted ==
    pcall.op = "client" =>
        LET nd == pcall.before
            request == Unwrap(pcall.transaction)
            tx == BlockTransaction(request.id, last_hash(nd.blockchain),
                                   request.info)
        IN  /\ pcall.ok <=> ~Rejects(nd.mempool, tx)
            /\ Len(pcall.broadcast) = IF pcall.ok THEN 1 ELSE 0
            /\ ~pcall.ok => /\ tnode = nd
                            /\ pcall.spawned = {}
            /\ pcall.ok =>
                 /\ tnode.mempool.transactions = Append(nd.mempool.transactions, tx)
                 /\ tnode = [nd EXCEPT !.mempool = tnode.mempool]
                 /\ pcall.broadcast = <<[transaction |-> tx, source |-> nd.address]>>
                 /\ pcall.spawned
                        = {[kind |-> "transaction", address |-> a, block |-> None,
                            transaction |-> Some(tx), blockchain_length |-> 0,
                            source |-> nd.address] : a \in world \ {nd.address}}
                 /\ Cardinality(pcall.spawned) = Cardinality(world \ {nd.address})
                 /\ \A t \in pcall.spawned : t.address # nd.address

\* With one spend of 700 pending against a balance of 1000 a client has
\* asked for a second spend of 700 by the same sender under a fresh id, and
\* the call has returned an error.
C17_Witness ==
    /\ pcall.op = "client"
    /\ ~pcall.ok
    /\ LET nd == pcall.before
           request == Unwrap(pcall.transaction)
       IN  /\ Len(nd.mempool.transactions) = 1
           /\ nd.mempool.transactions[1].info.sender = request.info.sender
           /\ balance_of(nd.blockchain, request.info.sender) = COINS_PER_MINED_BLOCK
           /\ request.id \notin nd.mempool.transaction_ids

(***************************************************************************)
(* C18                                                                     *)
(***************************************************************************)
\* C18: the block a node mines holds exactly the pending transactions of
\* its mempool, in the order of their insertion, and after the append the
\* balance of every address in the chain is its provisional balance in the
\* mempool just before the mining, plus COINS_PER_MINED_BLOCK for the
\* node's own address.
C18_MinedBlockIsThePool ==
    [][\A n \in Nodes :
          (MiningStep(n) /\ len(node'[n].blockchain) # len(node[n].blockchain)) =>
              /\ len(node'[n].blockchain) = len(node[n].blockchain) + 1
              /\ last_block(node'[n].blockchain).transactions
                     = node[n].mempool.transactions
              /\ last_block(node'[n].blockchain).miner = n
              /\ \A a \in Addresses :
                     balance_of(node'[n].blockchain, a)
                         = GetOrZero(node[n].mempool.balance, a)
                           + (IF a = n THEN COINS_PER_MINED_BLOCK ELSE 0)
      ]_vars

\* A node holding 1000 has mined a block of one pending transfer of 700:
\* it holds 1300 and the receiver holds 700 more than the node's chain gave
\* it before.
C18_Witness ==
    \E n \in Nodes :
        /\ pc[n] = "check"
        /\ outcome[n] = "idle"
        /\ last_block(node[n].blockchain).miner = n
        /\ Len(last_block(node[n].blockchain).transactions) = 1
        /\ last_block(node[n].blockchain).transactions[1].info.sender = n
        /\ balance_of(node[n].blockchain, n)
               = 2 * COINS_PER_MINED_BLOCK
                 - last_block(node[n].blockchain).transactions[1].info.amount
        /\ node[n].mempool = NewMemPool(node[n].blockchain)

(***************************************************************************)
(* C19                                                                     *)
(***************************************************************************)
\* C19: from the start of achieve_consensus to the end of mining, also
\* while the pass is suspended at query_block, the state of the node is
\* changed by the pass alone: no receive_new_block, add_transaction,
\* add_client_transaction or stop takes effect on it.  A step that is not
\* the pass's own leaves the node as it is, keeps the deliveries addressed
\* to it waiting while it is registered, keeps a pending stop pending, and
\* accepts no client transaction on it.
C19_PassIsOneCriticalSection ==
    [][\A n \in Nodes :
          (pc[n] \in {"query", "mine"} /\ pc'[n] = pc[n] /\ fetch'[n] = fetch[n]) =>
              /\ node'[n] = node[n]
              /\ n \in world => \A t \in tasks : t.address = n => t \in tasks'
              /\ n \in stopping => n \in stopping'
              /\ n \in ClientNodes => accepted' = accepted
      ]_vars

\* A registered node is suspended at query_block, and an announcement and a
\* transaction addressed to it wait for its lock.
C19_Witness ==
    \E n \in Nodes :
        /\ pc[n] = "query"
        /\ n \in world
        /\ \E t \in tasks : t.address = n /\ t.kind = "block"
        /\ \E t \in tasks : t.address = n /\ t.kind = "transaction"

(***************************************************************************)
(* C20                                                                     *)
(***************************************************************************)

\* Node n holds its write lock inside achieve_consensus and waits for the
\* read lock of a registered node whose pass holds the write lock.
Waits(n) ==
    /\ pc[n] = "query"
    /\ QueriedBy(n) \in world
    /\ pc[QueriedBy(n)] \in {"query", "mine"}

\* C20: no set of nodes is such that each holds its write lock inside
\* achieve_consensus and waits for the read lock of another node of the
\* set; whenever a node waits for a lock, the pass of some node holds a
\* lock and waits for none; and the source of a candidate, buffered or
\* being fetched, is never the node's own address, so a node never queries
\* itself.
C20_NoWaitCycle ==
    /\ \A S \in (SUBSET Nodes) \ {{}} :
           \E n \in S : ~(Waits(n) /\ QueriedBy(n) \in S /\ pc[QueriedBy(n)] = "query")
    /\ (\E n \in Nodes : Waits(n)) =>
           \E m \in Nodes : pc[m] \in {"query", "mine"} /\ ~Waits(m)
    /\ \A n \in Nodes :
           /\ node[n].better_blockchain # None =>
                  Unwrap(node[n].better_blockchain).source # n
           /\ fetch[n] # None => QueriedBy(n) # n
           /\ pc[n] = "query" <=> fetch[n] # None

\* A node suspended at query_block waits for the read lock of its
\* candidate's source, whose pass holds the write lock and is about to mine.
C20_Witness ==
    \E n \in Nodes :
        /\ Waits(n)
        /\ pc[QueriedBy(n)] = "mine"

(***************************************************************************)
(* C21                                                                     *)
(***************************************************************************)
\* The node locks that the run loop of node n holds.
HeldLocks(n) == IF WriteLocked(n) THEN {n} ELSE {}

\* The step is the return of the query_block that node n is suspended at.
QueryStep(n) == pc[n] = "query" /\ (pc'[n] # pc[n] \/ fetch'[n] # fetch[n])

\* C21 as claimed: the task that calls query_block holds no node lock at
\* the time of the call, in particular not its own node's write lock.
C21_QueryBlockCalledWithoutLock ==
    \A n \in Nodes : pc[n] = "query" => HeldLocks(n) = {}

\* C21 as amended: query_block takes the read lock of the destination
\* only, which it gets when no pass holds the destination's write lock, and
\* reads; the task that calls it holds exactly one node lock, its own
\* node's write lock, and the destination is never the calling node.
C21_QueryBlockCalledUnderOwnLockOnly ==
    [][\A n \in Nodes :
          /\ pc'[n] = "query" =>
                 /\ HeldLocks(n)' = {n}
                 /\ QueriedBy(n)' \notin HeldLocks(n)'
          /\ QueryStep(n) =>
                 /\ QueriedBy(n) \in world => pc[QueriedBy(n)] \notin {"query", "mine"}
                 /\ \A m \in Nodes \ {n} : node'[m] = node[m] /\ pc'[m] = pc[m]
                 /\ tasks' = tasks
      ]_vars

\* A node suspended at query_block has been answered by a registered
\* source and waits at its next query_block, its write lock still held.
C21_Witness ==
    \E n \in Nodes :
        /\ pc[n] = "query"
        /\ QueriedBy(n) \in world
        /\ Len(Unwrap(fetch[n]).new_blocks) >= 2

(***************************************************************************)
(* C22                                                                     *)
(***************************************************************************)
\* The task of the run loop of node n has ended.
Ended(n) == pc[n] \in {"exited", "panicked"}

\* The model keeps a node whose chain has MaxLen blocks from appending one
\* more, so its mining step never ends and its write lock is never
\* released.  Node n is held up by that bound when the frozen node is n
\* itself or the node that n queries.
Frozen(m) == pc[m] = "mine" /\ ~CanRun(m)

HeldUp(n) ==
    \/ Frozen(n)
    \/ pc[n] = "query" /\ QueriedBy(n) \in world /\ Frozen(QueriedBy(n))

\* C22: delete_node removes the address from the World and then sets alive
\* to false, for a registered address only; the run loop exits the first
\* time it reads alive = false at the top of an iteration and starts no
\* pass from there, so a node stopped between its read of alive and its
\* write lock runs one more pass and no other; and under fair scheduling
\* the task of a deleted node eventually ends.
C22_DeletedNodeExits ==
    /\ [][\A n \in Nodes :
             /\ n \in stopping' \ stopping => n \in world /\ n \notin world'
             /\ (node[n].alive /\ ~node'[n].alive) =>
                    n \in stopping /\ n \notin world /\ n \notin stopping'
             /\ ~node[n].alive => ~node'[n].alive
             /\ (~node[n].alive /\ pc[n] = "check" /\ pc'[n] # "check")
                    => pc'[n] = "exited"
             /\ (~node[n].alive /\ pc[n] = "mine" /\ pc'[n] # "mine")
                    => pc'[n] \in {"check", "panicked"}
             /\ pc'[n] = "exited" => (pc[n] = "exited" \/ ~node[n].alive)
             /\ pc[n] = "exited" => pc'[n] = "exited"
        ]_vars
    /\ \A n \in Nodes : (n \notin world) ~> (Ended(n) \/ HeldUp(n))

\* A deleted node has left its loop while no node was held up.
C22_Witness ==
    \E n \in Nodes :
        /\ pc[n] = "exited"
        /\ n \notin world
        /\ ~node[n].alive
        /\ \A m \in Nodes : ~HeldUp(m)

(***************************************************************************)
(* C23                                                                     *)
(***************************************************************************)
\* The set of nodes is the one of the start, no delivery is in flight, and
\* every run loop is at the top of an iteration with no candidate to look
\* at, or has ended: nothing but a newly mined block changes a chain again.
Settled ==
    /\ world = Nodes
    /\ stopping = {}
    /\ tasks = {}
    /\ \A n \in Nodes :
           \/ Ended(n)
           \/ pc[n] = "check" /\ node[n].better_blockchain = None

\* The greatest chain length held by a node.
GreatestLength ==
    CHOOSE l \in {len(node[n].blockchain) : n \in Nodes} :
        \A m \in Nodes : len(node[m].blockchain) <= l

\* The blocks of the sequence of bc are linked and well mined.
LinkedAndMined(bc) ==
    \A i \in 2..Len(bc.chain) :
        /\ bc.chain[i] \in DOMAIN bc.blocks
        /\ bc.blocks[bc.chain[i]].prefix_hash = bc.chain[i - 1]
        /\ bc.chain[i] = Hash(bc.blocks[bc.chain[i]])
        /\ leading_zero_bits(bc.chain[i]) >= MINING_DIFFICULTY

\* C23: with the set of nodes fixed from the start, once the deliveries and
\* the passes that the mined blocks set off have run, every node's chain
\* has the greatest chain length held by any node, and is a valid chain of
\* that length.
C23_ConvergesOnLongestChain ==
    Settled =>
        \A n \in Nodes :
            /\ len(node[n].blockchain) = GreatestLength
            /\ LinkedAndMined(node[n].blockchain)

(***************************************************************************)
(* C24                                                                     *)
(***************************************************************************)
\* The delivery tasks that a step creates, and those that it runs.
Sent == tasks' \ tasks

Delivered == tasks \ tasks'

\* Node n has mined a block in this step and has not failed to append it.
MinedBlock(n) ==
    /\ MiningStep(n)
    /\ pc'[n] = "check"
    /\ len(node'[n].blockchain) > len(node[n].blockchain)

\* Node n has accepted a client's transaction in this step.
AcceptedClientTransaction(n) ==
    /\ accepted' # accepted
    /\ node'[n] # node[n]

\* The tasks sent are one for each address registered but source, which
\* carry what the tasks of the set sample carry.
OnePerPeer(source, sample) ==
    /\ Sent \subseteq sample
    /\ {t.address : t \in Sent} = world \ {source}
    /\ Cardinality(Sent) = Cardinality(world \ {source})
    /\ \A t \in Sent : t.source = source

AllChains == {node[n].blockchain : n \in Nodes} \cup {tchain, tnode.blockchain}

\* C25: every chain is non-empty and starts with the hash of the genesis
\* block, which is the block of no transaction, empty prefix_hash, miner 0
\* and nonce 0, held under that hash; no pop, rejected append or reorg takes
\* it away or puts another in its place.
C25_GenesisStaysFirst ==
    \A bc \in AllChains :
        /\ Len(bc.chain) >= 1
        /\ bc.chain[1] = Hash(Block(<<>>, EmptyHash, 0, 0))
        /\ bc.chain[1] \in DOMAIN bc.blocks
        /\ bc.blocks[bc.chain[1]] = Block(<<>>, EmptyHash, 0, 0)

\* pop_block was called on a chain cut back to its genesis block by earlier
\* pops (they left the zero balance of a miner) and returned None.
C25_Witness ==
    /\ tcall.op = "pop"
    /\ tcall.block = None
    /\ Len(tchain.chain) = 1
    /\ DOMAIN tchain.balance # {}

(***************************************************************************)
(* C26                                                                     *)
(***************************************************************************)
\* C26: in every block of the sequence of every chain, no two transactions
\* have the same id, and every transaction names the prefix_hash that the
\* block names.
C26_BlocksAreWellFormed ==
    \A bc \in AllChains :
        \A i \in 2..Len(bc.chain) :
            LET transactions == bc.blocks[bc.chain[i]].transactions
            IN  /\ \A j, k \in DOMAIN transactions :
                       transactions[j].id = transactions[k].id => j = k
                /\ \A j \in DOMAIN transactions :
                       transactions[j].prefix_hash
                           = bc.blocks[bc.chain[i]].prefix_hash

\* A block of two transactions of two senders has been appended.
C26_Witness ==
    /\ tcall.op = "append" /\ tcall.ok
    /\ Len(last_block(tchain).transactions) = 2
    /\ last_block(tchain).transactions[1].info.sender
           # last_block(tchain).transactions[2].info.sender

(***************************************************************************)
(* C27                                                                     *)
(***************************************************************************)
\* The nonces of the range of the last call of attempt_mining_block that
\* make its block well mined.
MinedBy(nonce) ==
    leading_zero_bits(Hash(Block(tmine.transactions, tmine.prefix_hash,
                                 tmine.miner, nonce))) >= MINING_DIFFICULTY

WinningOfRange == {nonce \in tmine.lo..(tmine.hi - 1) : MinedBy(nonce)}

\* C27: attempt_mining_block returns Some(b) exactly when a nonce of the
\* iterator makes the block of the given transactions, prefix and miner
\* well mined; b then has these transactions, prefix and miner and the
\* first such nonce of the iteration, and is well mined; it returns None
\* when no nonce of the iterator does, as for an empty iterator.
C27_AttemptMiningFindsFirstNonce ==
    tmine.op = "mine" =>
        /\ tmine.block # None <=> WinningOfRange # {}
        /\ tmine.hi <= tmine.lo => tmine.block = None
        /\ tmine.block # None =>
               LET b == Unwrap(tmine.block)
               IN  /\ b.transactions = tmine.transactions
                   /\ b.prefix_hash = tmine.prefix_hash
                   /\ b.miner = tmine.miner
                   /\ b.nonce \in WinningOfRange
                   /\ \A nonce \in WinningOfRange : b.nonce <= nonce
                   /\ leading_zero_bits(Hash(b)) >= MINING_DIFFICULTY

\* A range of two winning nonces after a losing one was mined, with a
\* transaction in the block.
C27_Witness ==
    /\ tmine.op = "mine"
    /\ tmine.block # None
    /\ Cardinality(WinningOfRange) >= 2
    /\ ~MinedBy(tmine.lo)
    /\ tmine.transactions # <<>>

(***************************************************************************)
(* C28                                                                     *)
(***************************************************************************)
\* The step delivers to the node what the step before delivered to it.
Redelivered ==
    /\ pcall.op \in {"receive", "deliver"}
    /\ pcall'.op = pcall.op
    /\ pcall'.transaction = pcall.transaction
    /\ pcall'.announcement = pcall.announcement

\* C28: an announcement delivered a second time in a row leaves the node as
\* the first delivery left it, and so does a transaction delivered a second
\* time in a row, which the pool turns down for its id when the first
\* delivery admitted it; and whatever is delivered, in whatever order and
\* however often, no transaction is pending twice, the provisional balances
\* count each pending transaction once, and the chain stays linked and well
\* mined.
C28_RedeliveryChangesNothing ==
    /\ [][Redelivered =>
            /\ tnode' = tnode
            /\ (pcall.op = "deliver" /\ tnode # pcall.before) =>
                   /\ Unwrap(pcall.transaction).id
                          \in tnode.mempool.transaction_ids
                   /\ Unwrap(pcall.transaction).prefix_hash
                          = tnode.mempool.prefix_hash
         ]_vars
    /\ [](/\ \A i, j \in DOMAIN tnode.mempool.transactions :
                 tnode.mempool.transactions[i].id
                     = tnode.mempool.transactions[j].id => i = j
          /\ \A a \in Addresses :
                 GetOrZero(tnode.mempool.balance, a)
                     = GetOrZero(tnode.blockchain.balance, a)
                       + TransactionsNet(tnode.mempool.transactions, a)
          /\ LinkedAndMined(tnode.blockchain))

\* The transaction that the pool admitted last has been delivered again, to
\* a node that holds a candidate and a block of its own.
C28_Witness ==
    /\ pcall.op = "deliver"
    /\ tnode = pcall.before
    /\ tnode.mempool.transactions # <<>>
    /\ Unwrap(pcall.transaction)
           = tnode.mempool.transactions[Len(tnode.mempool.transactions)]
    /\ tnode.better_blockchain # None
    /\ len(tnode.blockchain) > 1

(***************************************************************************)
(* C29                                                                     *)
(***************************************************************************)
\* C29: on every chain built by accepted appends (and pops), each
\* subtraction that pop_block makes, of the reward and then, transaction by
\* transaction, of the amount from the receiver, is from a balance that
\* holds the amount: the pop of the last block neither panics with
\* overflow checks nor wraps without them, and no pop that was made did.
C29_PopNeverUnderflows ==
    /\ tcall.op = "pop" => ~tcall.panic
    /\ InUse => ~pop_block(tchain, TRUE).panic

(***************************************************************************)
(* C30                                                                     *)
(***************************************************************************)
\* The sum of the balances of a balance map.
RECURSIVE SumOver(_, _)
SumOver(balance, addresses) ==
    IF addresses = {} THEN 0
    ELSE LET a == CHOOSE x \in addresses : TRUE
         IN  balance[a] + SumOver(balance, addresses \ {a})

SumOfBalances(balance) == SumOver(balance, DOMAIN balance)

\* The coins of the balance map are those of the blocks mined on chain bc,
\* and every balance is a u64 that no wrap has produced.
HoldsTheCoinsOf(balance, bc) ==
    /\ SumOfBalances(balance) = COINS_PER_MINED_BLOCK * (len(bc) - 1)
    /\ \A a \in DOMAIN balance : balance[a] >= 0

\* The balance maps of the nodes, and of the chain called alone while it is
\* in use, hold the coins of their chains.
CoinsAreConserved ==
    /\ \A n \in Nodes :
           /\ HoldsTheCoinsOf(node[n].blockchain.balance, node[n].blockchain)
           /\ HoldsTheCoinsOf(node[n].mempool.balance, node[n].blockchain)
    /\ HoldsTheCoinsOf(tnode.blockchain.balance, tnode.blockchain)
    /\ HoldsTheCoinsOf(tnode.mempool.balance, tnode.blockchain)
    /\ InUse => HoldsTheCoinsOf(tchain.balance, tchain)

\* C30: the balances of a chain sum up to COINS_PER_MINED_BLOCK for each
\* block after the genesis block, and so do the provisional balances of the
\* mempool; and no addition to a balance overflows u64, those of pop_block
\* included.
C30_CoinsAreConservedWithoutOverflow ==
    /\ CoinsAreConserved
    /\ tcall.op = "pop" => ~tcall.overflow

(***************************************************************************)
(* C31                                                                     *)
(***************************************************************************)
\* The hashes of the sequence of bc.
OnChain(bc) == {bc.chain[i] : i \in 1..Len(bc.chain)}

\* The keys of blocks are the hashes of the sequence, none of them twice,
\* and contains and get_block answer for these hashes and no other.
IndexIsConsistent(bc) ==
    /\ DOMAIN bc.blocks = OnChain(bc)
    /\ \A i, j \in 1..Len(bc.chain) : bc.chain[i] = bc.chain[j] => i = j
    /\ \A h \in OnChain(bc) \cup {EmptyHash, Hash(Genesis)} :
           /\ contains(bc, h) <=> h \in OnChain(bc)
           /\ get_block(bc, h) # None <=> h \in OnChain(bc)

\* The step ends the loop of achieve_consensus of node n with a fork point,
\* which the replay on the clone pops back to.
ReplayStep(n) ==
    /\ pc[n] \in {"check", "acquire", "query"}
    /\ pc'[n] \in {"mine", "panicked"}
    /\ outcome'[n] \in {"adopted", "invalid", "bad_length", "panic"}

\* What query_block returns to node n in the step.
Returned(n) ==
    query_block(Unwrap(fetch[n]).last_common_hash, QueriedBy(n))

\* The fork point of a ReplayStep of node n.
ForkPoint(n) ==
    IF pc[n] = "query" THEN Unwrap(Returned(n)).prefix_hash
    ELSE IF contains(node[n].blockchain,
                     Hash(Unwrap(node[n].better_blockchain).last_block))
    THEN Hash(Unwrap(node[n].better_blockchain).last_block)
    ELSE Unwrap(node[n].better_blockchain).last_block.prefix_hash

\* C31: on every chain the keys of blocks are the hashes of the sequence,
\* which holds no hash twice, so that contains is true of the blocks on the
\* chain only; the fork point that achieve_consensus finds is a hash of the
\* node's sequence; pop_until on the clone ends without popping the genesis
\* block and without a panic; and query_block returns only blocks that are
\* on the chain of its destination.
C31_IndexIsConsistent ==
    [][/\ \A n \in Nodes : IndexIsConsistent(node'[n].blockchain)
       /\ IndexIsConsistent(tchain') /\ IndexIsConsistent(tnode'.blockchain)
       /\ \A n \in Nodes :
              ReplayStep(n) =>
                  /\ ForkPoint(n) \in OnChain(node[n].blockchain)
                  /\ outcome'[n] # "panic"
                  /\ node'[n].blockchain.chain[1] = Hash(Genesis)
       /\ \A n \in Nodes :
              (QueryStep(n) /\ Returned(n) # None) =>
                  /\ QueriedBy(n) \in world
                  /\ Hash(Unwrap(Returned(n)))
                         \in OnChain(node[QueriedBy(n)].blockchain)
      ]_vars

====
